---- MODULE Spec2Model ----
(***************************************************************************)
(* Profile and credential store of the Powerloom snapshotter CLI.          *)
(*                                                                         *)
(* The state is the part of the file system the CLI owns                   *)
(* (~/.powerloom-snapshotter-cli: profiles/, envs/, config.json) plus the  *)
(* current working directory's credential files.  Every action is one CLI  *)
(* invocation (one command handler run to completion).                     *)
(*                                                                         *)
(* Strings that the code inspects character by character (profile names)   *)
(* are sequences of one-character strings, so that the name rule is        *)
(* computed, not assumed.                                                  *)
(***************************************************************************)
EXTENDS Naturals, Sequences, FiniteSets, TLC

VARIABLES
    rootExists,     \* PROFILES_DIR exists
    rootFiles,      \* credential files lying directly in PROFILES_DIR
    profiles,       \* profile directory name -> its credential files
    legacyExists,   \* LEGACY_ENVS_DIR / CONFIG_DIR exists
    legacyFiles,    \* credential files of the legacy flat directory
    cwdFiles,       \* credential files of the current working directory
    configFile,     \* config.json: <<>> when absent, <<document>> when present
    clock,          \* number of CLI invocations so far (datetime.now())
    last,           \* what the last CLI invocation was and how it ended
    migration,      \* a migrate_legacy_configs call observed rename by rename
    race,           \* two concurrent invocations observed call by call
    slotCheck,      \* a run of check_slots.py: its inputs and how far it got
    monitor         \* a run of monitor deploy: its inputs, files and position

vars == <<rootExists, rootFiles, profiles, legacyExists, legacyFiles,
          cwdFiles, configFile, clock, last, migration, race,
          slotCheck, monitor>>

----------------------------------------------------------------------------
(* Bounds of the model *)

\* CLI invocations in one run
MaxOps == 2

----------------------------------------------------------------------------
(* Names, file names and file contents *)

DEFAULT_PROFILE == <<"d", "e", "f", "a", "u", "l", "t">>
Alice == <<"a">>
Dot == <<".">>
NoName == <<>>      \* the empty string, and None for an Optional[str]
Slash == <<"a", "/">>
Backslash == <<"\\", "a">>

\* names a profile directory can have in this model
DirNames == {DEFAULT_PROFILE, Alice}
\* values of a positional NAME argument
PositionalNames == DirNames \cup {Dot, NoName, Slash, Backslash}
\* values of --profile and of POWERLOOM_PROFILE (NoName: not given)
OptionalNames == DirNames \cup {Dot, NoName}

\* str.lower() and str.upper(), character by character
CasePairs == {<<"A", "a">>, <<"E", "e">>, <<"M", "m">>, <<"U", "u">>}
lower_char(c) == IF \E p \in CasePairs : p[1] = c
                 THEN (CHOOSE p \in CasePairs : p[1] = c)[2] ELSE c
upper_char(c) == IF \E p \in CasePairs : p[2] = c
                 THEN (CHOOSE p \in CasePairs : p[2] = c)[1] ELSE c
lower(str) == [i \in 1..Len(str) |-> lower_char(str[i])]
upper(str) == [i \in 1..Len(str) |-> upper_char(str[i])]
\* str.replace("-", "_")
replace_hyphen(str) == [i \in 1..Len(str) |-> IF str[i] = "-" THEN "_" ELSE str[i]]

\* CONFIG_ENV_FILENAME_TEMPLATE.format(chain, market, source): ".env.{}.{}.{}"
FormatEnvFilename(chain, market, source) ==
    <<".", "e", "n", "v", ".">> \o chain \o <<".">> \o market \o <<".">> \o source

\* the file name the commands derive from what they are given
\* variant: the source chain is lowercased, its hyphens stay
NormalisedEnvFilename_hyphenKept(chain, market, source_chain) ==
    FormatEnvFilename(lower(chain), lower(market), lower(source_chain))

NormalisedEnvFilename(chain, market, source_chain) ==
    FormatEnvFilename(lower(chain), lower(market), replace_hyphen(lower(source_chain)))

\* str.split(sep)
RECURSIVE SplitFrom(_, _, _, _)
SplitFrom(str, sep, i, part) ==
    IF i > Len(str) THEN <<part>>
    ELSE IF str[i] = sep THEN <<part>> \o SplitFrom(str, sep, i + 1, <<>>)
    ELSE SplitFrom(str, sep, i + 1, Append(part, str[i]))
split(str, sep) == SplitFrom(str, sep, 1, <<>>)

\* --chain / --market / --source-chain as typed: one configuration, written
\* in two ways
InputTriples ==
    { [chain |-> <<"M">>, market |-> <<"U">>, source_chain |-> <<"E", "-", "M">>],
      [chain |-> <<"m">>, market |-> <<"u">>, source_chain |-> <<"e", "_", "m">>] }

\* names of the credential files the commands make
EnvFiles == {NormalisedEnvFilename(t.chain, t.market, t.source_chain) : t \in InputTriples}

POOL == "MAX_STREAM_POOL_SIZE"
WALLET == "WALLET_HOLDER_ADDRESS"
BRANCH == "LITE_NODE_BRANCH"
CUSTOM == "LOCAL_COLLECTOR_HEALTH_CHECK_PORT"

EmptyMap == [x \in {} |-> x]
Put(f, k, v) == [x \in (DOMAIN f) \cup {k} |-> IF x = k THEN v ELSE f[x]]
Drop(f, k) == [x \in (DOMAIN f) \ {k} |-> f[x]]
Get(f, k, d) == IF k \in DOMAIN f THEN f[k] ELSE d

\* what a pre-profile installation left in envs/, and in the working directory
LegacyContent == Put(Put(EmptyMap, WALLET, "0xABC"), CUSTOM, "9090")
CwdContent == Put(EmptyMap, WALLET, "0xDEF")

----------------------------------------------------------------------------
(* The store as one value, and the variables as that value *)

Cur == [ root |-> rootExists, rootFiles |-> rootFiles, dirs |-> profiles,
         legacyDir |-> legacyExists, legacy |-> legacyFiles,
         cwd |-> cwdFiles, cfgFile |-> configFile ]

Commit(s) ==
    /\ rootExists' = s.root
    /\ rootFiles' = s.rootFiles
    /\ profiles' = s.dirs
    /\ legacyExists' = s.legacyDir
    /\ legacyFiles' = s.legacy
    /\ cwdFiles' = s.cwd
    /\ configFile' = s.cfgFile

----------------------------------------------------------------------------
(* ProfileConfig: config.json *)

DefaultConfig ==
    [ default_profile |-> DEFAULT_PROFILE,
      last_used_profile |-> DEFAULT_PROFILE,
      profiles |-> EmptyMap ]

\* config.json opened for writing and not yet written: an empty file
Truncated == [truncated |-> TRUE]

\* a file that does not decode (JSONDecodeError) gives the default document
_load_config(s) ==
    IF s.cfgFile = <<>> \/ s.cfgFile = <<Truncated>> THEN DefaultConfig
    ELSE s.cfgFile[1]

save(s, config) == [s EXCEPT !.cfgFile = <<config>>]

\* PROFILES_DIR / name: pathlib drops an empty or "." component
IsRootPath(name) == name = NoName \/ name = Dot

profile_dir_exists(s, name) ==
    IF IsRootPath(name) THEN s.root ELSE s.root /\ name \in DOMAIN s.dirs

profile_exists(s, name) == profile_dir_exists(s, name)

\* the credential files of PROFILES_DIR / name
ProfileFiles(s, name) ==
    IF ~profile_dir_exists(s, name) THEN EmptyMap
    ELSE IF IsRootPath(name) THEN s.rootFiles
    ELSE s.dirs[name]

\* variant: the name is stored without looking for its directory
set_default_profile_unchecked(s, name) ==
    save(s, [_load_config(s) EXCEPT !.default_profile = name])

set_default_profile(s, name) ==
    IF ~profile_exists(s, name) THEN s
    ELSE save(s, [_load_config(s) EXCEPT !.default_profile = name])

set_last_used_profile(s, name) ==
    save(s, [_load_config(s) EXCEPT !.last_used_profile = name])

DescriptionOr(description, name) ==
    IF description = <<>> THEN <<"Profile: ", name>> ELSE description

add_profile(s, name, description, now) ==
    LET config == _load_config(s)
        meta == [created |-> now, description |-> DescriptionOr(description, name)]
    IN  save(s, [config EXCEPT !.profiles = Put(config.profiles, name, meta)])

\* variant: the entry is pruned but default_profile / last_used_profile stay
remove_profile_keepsPointers(s, name) ==
    LET config == _load_config(s)
    IN  IF name \in DOMAIN config.profiles
        THEN save(s, [config EXCEPT !.profiles = Drop(config.profiles, name)])
        ELSE s

remove_profile(s, name) ==
    LET config == _load_config(s)
    IN  IF name \in DOMAIN config.profiles
        THEN save(s, [config EXCEPT
                 !.profiles = Drop(config.profiles, name),
                 !.default_profile =
                     IF config.default_profile = name THEN DEFAULT_PROFILE
                     ELSE config.default_profile,
                 !.last_used_profile =
                     IF config.last_used_profile = name THEN DEFAULT_PROFILE
                     ELSE config.last_used_profile])
        ELSE s

----------------------------------------------------------------------------
(* The profile store: utils/profile.py *)

\* profile_dir.mkdir(parents=True, exist_ok=True)
MkdirProfile(s, name) ==
    IF IsRootPath(name) THEN [s EXCEPT !.root = TRUE]
    ELSE [s EXCEPT !.root = TRUE,
                   !.dirs = IF name \in DOMAIN s.dirs THEN s.dirs
                            ELSE Put(s.dirs, name, EmptyMap)]

\* shutil.rmtree(profile_dir)
RmtreeProfile(s, name) ==
    IF IsRootPath(name)
    THEN [s EXCEPT !.root = FALSE, !.rootFiles = EmptyMap, !.dirs = EmptyMap]
    ELSE [s EXCEPT !.dirs = Drop(s.dirs, name)]

\* variant: no existence check, as mkdir(exist_ok=True) alone would allow
create_profile_exist_ok(s, name, description, now) ==
    [s |-> add_profile(MkdirProfile(s, name), name, description, now), ok |-> TRUE]

create_profile(s, name, description, now) ==
    IF profile_dir_exists(s, name)
    THEN [s |-> s, ok |-> FALSE]
    ELSE [s |-> add_profile(MkdirProfile(s, name), name, description, now),
          ok |-> TRUE]

\* variant: "default" is not protected
delete_profile_unprotected(s, name, force) ==
    IF ~profile_dir_exists(s, name)
    THEN [s |-> s, ok |-> FALSE, why |-> "NotFound"]
    ELSE [s |-> remove_profile(RmtreeProfile(s, name), name), ok |-> TRUE,
          why |-> "ok"]

delete_profile(s, name, force) ==
    IF name = DEFAULT_PROFILE /\ ~force
    THEN [s |-> s, ok |-> FALSE, why |-> "Protected"]
    ELSE IF ~profile_dir_exists(s, name)
    THEN [s |-> s, ok |-> FALSE, why |-> "NotFound"]
    ELSE [s |-> remove_profile(RmtreeProfile(s, name), name), ok |-> TRUE,
          why |-> "ok"]

\* The I/O outcome of one migration: whether a rename raised OSError, and the
\* files that had been renamed before it did (glob order is the file system's).
NoFailure == [fail |-> FALSE, moved |-> {}]

IOOutcomes(s) ==
    {NoFailure} \cup
    IF ~s.root /\ s.legacyDir
    THEN {[fail |-> TRUE, moved |-> m] :
              m \in {x \in SUBSET (DOMAIN s.legacy) : x # DOMAIN s.legacy}}
    ELSE {}

\* variant: the legacy files are copied, not renamed
migrate_legacy_configs_copying(s, io, now) ==
    IF s.root THEN [s |-> s, ok |-> TRUE]
    ELSE IF ~s.legacyDir
    THEN [s |-> create_profile([s EXCEPT !.root = TRUE], DEFAULT_PROFILE,
                               <<"Default profile">>, now).s,
          ok |-> TRUE]
    ELSE
        LET made == MkdirProfile(s, DEFAULT_PROFILE)
            movedNames == IF io.fail THEN io.moved ELSE DOMAIN s.legacy
            copied == [made EXCEPT
                !.dirs = Put(made.dirs, DEFAULT_PROFILE,
                             [f \in movedNames |-> s.legacy[f]])]
        IN  IF io.fail
            THEN [s |-> copied, ok |-> FALSE]
            ELSE [s |-> set_default_profile(
                            add_profile(copied, DEFAULT_PROFILE,
                                        <<"Migrated from legacy configuration">>, now),
                            DEFAULT_PROFILE),
                  ok |-> TRUE]

\* variant: migration runs whenever the legacy directory exists
migrate_legacy_configs_ungated(s, io, now) ==
    IF ~s.legacyDir
    THEN [s |-> create_profile([s EXCEPT !.root = TRUE], DEFAULT_PROFILE,
                               <<"Default profile">>, now).s,
          ok |-> TRUE]
    ELSE
        LET made == MkdirProfile(s, DEFAULT_PROFILE)
            movedNames == IF io.fail THEN io.moved ELSE DOMAIN s.legacy
            moved == [made EXCEPT
                !.dirs = Put(made.dirs, DEFAULT_PROFILE,
                             [f \in (DOMAIN made.dirs[DEFAULT_PROFILE]) \cup movedNames |->
                                 IF f \in movedNames THEN s.legacy[f]
                                 ELSE made.dirs[DEFAULT_PROFILE][f]]),
                !.legacy = [f \in (DOMAIN s.legacy) \ movedNames |-> s.legacy[f]]]
        IN  IF io.fail
            THEN [s |-> moved, ok |-> FALSE]
            ELSE [s |-> set_default_profile(
                            add_profile(moved, DEFAULT_PROFILE,
                                        <<"Migrated from legacy configuration">>, now),
                            DEFAULT_PROFILE),
                  ok |-> TRUE]

migrate_legacy_configs(s, io, now) ==
    IF s.root THEN [s |-> s, ok |-> TRUE]
    ELSE IF ~s.legacyDir
    THEN [s |-> create_profile([s EXCEPT !.root = TRUE], DEFAULT_PROFILE,
                               <<"Default profile">>, now).s,
          ok |-> TRUE]
    ELSE
        LET made == MkdirProfile(s, DEFAULT_PROFILE)
            movedNames == IF io.fail THEN io.moved ELSE DOMAIN s.legacy
            moved == [made EXCEPT
                !.dirs = Put(made.dirs, DEFAULT_PROFILE,
                             [f \in (DOMAIN made.dirs[DEFAULT_PROFILE]) \cup movedNames |->
                                 IF f \in movedNames THEN s.legacy[f]
                                 ELSE made.dirs[DEFAULT_PROFILE][f]]),
                !.legacy = [f \in (DOMAIN s.legacy) \ movedNames |-> s.legacy[f]]]
        IN  IF io.fail
            THEN [s |-> moved, ok |-> FALSE]
            ELSE [s |-> set_default_profile(
                            add_profile(moved, DEFAULT_PROFILE,
                                        <<"Migrated from legacy configuration">>, now),
                            DEFAULT_PROFILE),
                  ok |-> TRUE]

\* variant: the file is copied into the default profile and stays where it was
RenameLegacyFile_copying(s, f) ==
    [s EXCEPT !.dirs = Put(s.dirs, DEFAULT_PROFILE,
                           Put(s.dirs[DEFAULT_PROFILE], f, s.legacy[f]))]

\* env_file.rename(default_profile_dir / env_file.name)
RenameLegacyFile(s, f) ==
    [s EXCEPT !.dirs = Put(s.dirs, DEFAULT_PROFILE,
                           Put(s.dirs[DEFAULT_PROFILE], f, s.legacy[f])),
              !.legacy = Drop(s.legacy, f)]

ensure_profile_structure(s, io, now) ==
    IF ~s.root THEN migrate_legacy_configs(s, io, now).s
    ELSE IF ~profile_exists(s, DEFAULT_PROFILE)
    THEN create_profile(s, DEFAULT_PROFILE, <<"Default profile">>, now).s
    ELSE s

----------------------------------------------------------------------------
(* Active-profile resolution and credential-file lookup *)

\* variant: a missing explicit or environment profile falls through
get_active_profile_fallthrough(s, explicit_profile, env_profile) ==
    LET config == _load_config(s)
        default == config.default_profile
        last_used == config.last_used_profile
    IN  IF explicit_profile # NoName /\ profile_exists(s, explicit_profile)
        THEN explicit_profile
        ELSE IF env_profile # NoName /\ profile_exists(s, env_profile)
        THEN env_profile
        ELSE IF profile_exists(s, default) THEN default
        ELSE IF last_used # DEFAULT_PROFILE /\ profile_exists(s, last_used)
        THEN last_used
        ELSE DEFAULT_PROFILE

\* variant: last_used_profile is tried before default_profile
get_active_profile_lastUsedFirst(s, explicit_profile, env_profile) ==
    IF explicit_profile # NoName
    THEN IF ~profile_exists(s, explicit_profile) THEN DEFAULT_PROFILE
         ELSE explicit_profile
    ELSE IF env_profile # NoName
    THEN IF ~profile_exists(s, env_profile) THEN DEFAULT_PROFILE
         ELSE env_profile
    ELSE LET config == _load_config(s)
             default == config.default_profile
             last_used == config.last_used_profile
         IN  IF last_used # DEFAULT_PROFILE /\ profile_exists(s, last_used)
             THEN last_used
             ELSE IF profile_exists(s, default) THEN default
             ELSE DEFAULT_PROFILE

get_active_profile(s, explicit_profile, env_profile) ==
    IF explicit_profile # NoName
    THEN IF ~profile_exists(s, explicit_profile) THEN DEFAULT_PROFILE
         ELSE explicit_profile
    ELSE IF env_profile # NoName
    THEN IF ~profile_exists(s, env_profile) THEN DEFAULT_PROFILE
         ELSE env_profile
    ELSE LET config == _load_config(s)
             default == config.default_profile
             last_used == config.last_used_profile
         IN  IF profile_exists(s, default) THEN default
             ELSE IF last_used # DEFAULT_PROFILE /\ profile_exists(s, last_used)
             THEN last_used
             ELSE DEFAULT_PROFILE

\* the branch of get_active_profile that decides
ActiveSource(explicit_profile, env_profile) ==
    IF explicit_profile # NoName THEN "explicit"
    ELSE IF env_profile # NoName THEN "env"
    ELSE "config"

\* env_path.exists() for get_profile_env_path(profile, ...)
ProfileFileExists(s, profile, f) == f \in DOMAIN ProfileFiles(s, profile)
\* (CONFIG_DIR / env_filename).exists()
LegacyFileExists(s, f) == s.legacyDir /\ f \in DOMAIN s.legacy
\* (Path(os.getcwd()) / env_filename).exists()
CwdFileExists(s, f) == f \in DOMAIN s.cwd

\* open(PROFILES_DIR / profile / f, "w"): the directory exists when this is called
WriteProfileFile(s, profile, f, content) ==
    IF IsRootPath(profile)
    THEN [s EXCEPT !.rootFiles = Put(s.rootFiles, f, content)]
    ELSE [s EXCEPT !.dirs = Put(s.dirs, profile, Put(s.dirs[profile], f, content))]

\* which file show_identity / delete_identity end up with
IdentityLevel(s, active, f) ==
    IF ProfileFileExists(s, active, f) THEN "profile"
    ELSE IF LegacyFileExists(s, f) THEN "legacy"
    ELSE IF CwdFileExists(s, f) THEN "cwd"
    ELSE "none"

UnlinkAtLevel(s, active, f, level) ==
    IF level = "profile"
    THEN IF IsRootPath(active)
         THEN [s EXCEPT !.rootFiles = Drop(s.rootFiles, f)]
         ELSE [s EXCEPT !.dirs = Put(s.dirs, active, Drop(s.dirs[active], f))]
    ELSE IF level = "legacy" THEN [s EXCEPT !.legacy = Drop(s.legacy, f)]
    ELSE IF level = "cwd" THEN [s EXCEPT !.cwd = Drop(s.cwd, f)]
    ELSE s

\* variant: the destination is made and registered, but no file is copied
copy_profile_shallow(s, source_profile, destination_profile, now) ==
    IF ~profile_dir_exists(s, source_profile)
    THEN [s |-> s, ok |-> FALSE, why |-> "SourceNotFound"]
    ELSE IF profile_dir_exists(s, destination_profile)
    THEN [s |-> s, ok |-> FALSE, why |-> "DestExists"]
    ELSE [s |-> add_profile(MkdirProfile(s, destination_profile), destination_profile,
                            <<"Copied from ", source_profile>>, now),
          ok |-> TRUE, why |-> "ok"]

copy_profile(s, source_profile, destination_profile, now) ==
    IF ~profile_dir_exists(s, source_profile)
    THEN [s |-> s, ok |-> FALSE, why |-> "SourceNotFound"]
    ELSE IF profile_dir_exists(s, destination_profile)
    THEN [s |-> s, ok |-> FALSE, why |-> "DestExists"]
    ELSE LET copied == [s EXCEPT !.dirs = Put(s.dirs, destination_profile,
                                              ProfileFiles(s, source_profile))]
         IN  [s |-> add_profile(copied, destination_profile,
                                <<"Copied from ", source_profile>>, now),
              ok |-> TRUE, why |-> "ok"]

----------------------------------------------------------------------------
(* The record of the last invocation *)

NoOp ==
    [ op |-> "none",         \* the command
      name |-> NoName,       \* the profile it named or resolved
      result |-> "ok",       \* the branch it ended in
      exit |-> 0,            \* its exit status
      authorized |-> FALSE,  \* a confirmation was answered yes, or --force given
      via |-> "none" ]       \* what the active profile was resolved from

\* the characters of the names of this model, in code-point order
Alphabet == <<".", "B", "a", "b", "d", "e", "f", "l", "t", "u">>
CharRank(c) == CHOOSE i \in 1..Len(Alphabet) : Alphabet[i] = c

\* a < b for Python str: the first differing character decides, a proper
\* prefix comes first
NameLess(a, b) ==
    \E i \in 1..(Len(a) + 1) :
        /\ i <= Len(b)
        /\ \A j \in 1..(i - 1) : a[j] = b[j]
        /\ i = Len(a) + 1 \/ CharRank(a[i]) < CharRank(b[i])

\* sorted(names)
RECURSIVE SortedNames(_)
SortedNames(S) ==
    IF S = {} THEN <<>>
    ELSE LET m == CHOOSE x \in S : \A y \in S \ {x} : NameLess(x, y)
         IN  <<m>> \o SortedNames(S \ {m})

\* sorted(names, reverse=True)
RECURSIVE ReverseSortedNames(_)
ReverseSortedNames(S) ==
    IF S = {} THEN <<>>
    ELSE LET m == CHOOSE x \in S : \A y \in S \ {x} : NameLess(y, x)
         IN  <<m>> \o ReverseSortedNames(S \ {m})

\* profile_info for one directory of PROFILES_DIR
ProfileInfo(s, profile_name) ==
    LET config == _load_config(s)
    IN  [ name |-> profile_name,
          is_default |-> profile_name = config.default_profile,
          is_last_used |-> profile_name = config.last_used_profile,
          config_count |-> Cardinality(DOMAIN s.dirs[profile_name]),
          meta |-> IF profile_name \in DOMAIN config.profiles
                   THEN <<config.profiles[profile_name]>> ELSE <<>> ]

\* variant: the descriptors come in another order than ascending by name
list_profiles_unsorted(s) ==
    IF ~s.root THEN <<>>
    ELSE LET names == ReverseSortedNames(DOMAIN s.dirs)
         IN  [i \in 1..Len(names) |-> ProfileInfo(s, names[i])]

list_profiles(s) ==
    IF ~s.root THEN <<>>
    ELSE LET names == SortedNames(DOMAIN s.dirs)
         IN  [i \in 1..Len(names) |-> ProfileInfo(s, names[i])]

\* no concurrent invocations are being observed
NoRace == <<>>

\* no run of check_slots.py is being observed
NoSlotCheck == <<>>

\* no run of monitor deploy is being observed
NoMonitor == <<>>

\* no migrate_legacy_configs call is being observed
NoMigration ==
    [ pc |-> "idle",       \* idle, renaming, done, failed (OSError), killed
      env_files |-> {},    \* names of list(glob(".env.*.*.*")) not yet renamed
      files |-> EmptyMap,  \* the legacy files as the glob found them
      at |-> 0,            \* when the call began
      ok |-> TRUE ]        \* what the call returned

----------------------------------------------------------------------------
(* CLI commands: commands/profile.py *)

\* variant: the "." test is missing
InvalidName_dotAllowed(name) ==
    \/ name = <<>>
    \/ \E i \in 1..Len(name) : name[i] \in {"/", "\\"}

InvalidName(name) ==
    \/ name = <<>>
    \/ \E i \in 1..Len(name) : name[i] \in {"/", "\\", "."}

list_profiles_command(s, io, now) ==
    [s |-> ensure_profile_structure(s, io, now), result |-> "ok", exit |-> 0,
     authorized |-> FALSE]

create_profile_command(s, name, io, now) ==
    LET s1 == ensure_profile_structure(s, io, now)
        r == create_profile(s1, name, <<>>, now)
    IN  IF InvalidName(name)
        THEN [s |-> s1, result |-> "InvalidName", exit |-> 1, authorized |-> FALSE]
        ELSE IF r.ok
        THEN [s |-> r.s, result |-> "ok", exit |-> 0, authorized |-> FALSE]
        ELSE [s |-> s1, result |-> "AlreadyExists", exit |-> 1, authorized |-> FALSE]

\* answer: what the operator says at typer.confirm (asked only without --force)
delete_profile_command(s, name, force, answer, io, now) ==
    LET s1 == ensure_profile_structure(s, io, now)
        r == delete_profile(s1, name, FALSE)
    IN  IF name = DEFAULT_PROFILE
        THEN [s |-> s1, result |-> "Protected", exit |-> 1, authorized |-> FALSE]
        ELSE IF ~profile_exists(s1, name)
        THEN [s |-> s1, result |-> "NotFound", exit |-> 1, authorized |-> FALSE]
        ELSE IF ~force /\ ~answer
        THEN [s |-> s1, result |-> "Aborted", exit |-> 0, authorized |-> FALSE]
        ELSE IF r.ok
        THEN [s |-> r.s, result |-> "ok", exit |-> 0, authorized |-> TRUE]
        ELSE [s |-> s1, result |-> "Failed", exit |-> 1, authorized |-> TRUE]

copy_profile_command(s, source, destination, io, now) ==
    LET s1 == ensure_profile_structure(s, io, now)
        r == copy_profile(s1, source, destination, now)
    IN  IF InvalidName(destination)
        THEN [s |-> s1, result |-> "InvalidName", exit |-> 1, authorized |-> FALSE]
        ELSE IF r.ok
        THEN [s |-> r.s, result |-> "ok", exit |-> 0, authorized |-> FALSE]
        ELSE [s |-> s1, result |-> r.why, exit |-> 1, authorized |-> FALSE]

set_default_profile_command(s, name, io, now) ==
    LET s1 == ensure_profile_structure(s, io, now)
    IN  IF ~profile_exists(s1, name)
        THEN [s |-> s1, result |-> "NotFound", exit |-> 1, authorized |-> FALSE]
        ELSE [s |-> set_default_profile(s1, name), result |-> "ok", exit |-> 0,
              authorized |-> FALSE]

show_profile_command(s, name, io, now) ==
    LET s1 == ensure_profile_structure(s, io, now)
    IN  IF ~profile_exists(s1, name)
        THEN [s |-> s1, result |-> "NotFound", exit |-> 1, authorized |-> FALSE]
        ELSE [s |-> s1, result |-> "ok", exit |-> 0, authorized |-> FALSE]

\* safe_keys and credential_keys of the export, as far as this model has them
safe_keys == {BRANCH, POOL}
credential_keys == {WALLET}

\* a set of file names as a sequence, in some directory order
RECURSIVE GlobOrder(_)
GlobOrder(S) ==
    IF S = {} THEN <<>>
    ELSE LET f == CHOOSE x \in S : TRUE IN <<f>> \o GlobOrder(S \ {f})

\* config_data for one file of the profile, <<>> if its name has not 5 parts
ExportConfigData(env_file_name, env_vars, include_credentials) ==
    LET parts == split(env_file_name, ".")
        keys == (DOMAIN env_vars) \cap
                (safe_keys \cup IF include_credentials THEN credential_keys ELSE {})
    IN  IF Len(parts) = 5
        THEN <<[chain |-> upper(parts[3]), market |-> upper(parts[4]),
                source_chain |-> upper(parts[5]),
                settings |-> [k \in keys |-> env_vars[k]]]>>
        ELSE <<>>

\* export_data["configurations"] for the files named in the sequence names
RECURSIVE ExportConfigurations(_, _, _, _)
ExportConfigurations(files, names, include_credentials, i) ==
    IF i > Len(names) THEN <<>>
    ELSE ExportConfigData(names[i], files[names[i]], include_credentials)
             \o ExportConfigurations(files, names, include_credentials, i + 1)

\* data: the exported document (printed, or written to --output)
export_profile_command(s, name, include_credentials, io, now) ==
    LET s1 == ensure_profile_structure(s, io, now)
        files == ProfileFiles(s1, name)
    IN  IF ~profile_exists(s1, name)
        THEN [s |-> s1, result |-> "NotFound", exit |-> 1, authorized |-> FALSE,
              data |-> [profile_name |-> name, configurations |-> <<>>]]
        ELSE [s |-> s1, result |-> "ok", exit |-> 0, authorized |-> FALSE,
              data |-> [profile_name |-> name,
                        configurations |->
                            ExportConfigurations(files, GlobOrder(DOMAIN files),
                                                 include_credentials, 1)]]

\* One entry of the import file's "configurations": the file name its triple
\* normalises to, and its "settings".
ImportSettings == { EmptyMap, Put(EmptyMap, BRANCH, "dev") }
ImportConfigs ==
    {<<>>} \cup
    {<<[chain |-> t.chain, market |-> t.market, source_chain |-> t.source_chain,
        settings |-> st]>> : t \in InputTriples, st \in ImportSettings}
\* what the operator types at a prompt ("" : just Enter)
WalletAnswers == {"", "0x123"}

\* the body of the loop over import_data["configurations"], for entry i onwards
RECURSIVE ImportConfigurations(_, _, _, _, _, _)
ImportConfigurations(s, profile_name, merge, configs, wallet, i) ==
    IF i > Len(configs) THEN s
    ELSE LET config == configs[i]
             filename == NormalisedEnvFilename(config.chain, config.market,
                                               config.source_chain)
             skip == ProfileFileExists(s, profile_name, filename) /\ ~merge
             env_lines ==
                 IF WALLET \notin DOMAIN config.settings /\ wallet # ""
                 THEN Put(config.settings, WALLET, wallet)
                 ELSE config.settings
             s1 == IF skip \/ env_lines = EmptyMap THEN s
                   ELSE WriteProfileFile(s, profile_name, filename, env_lines)
         IN  ImportConfigurations(s1, profile_name, merge, configs, wallet, i + 1)

\* readable: the input file exists and holds JSON
import_profile_command(s, readable, profile_name, merge, configs, wallet, io, now) ==
    LET s1 == ensure_profile_structure(s, io, now)
        s2 == IF ~profile_exists(s1, profile_name)
              THEN create_profile(s1, profile_name, <<"Imported profile">>, now).s
              ELSE s1
    IN  IF ~readable
        THEN [s |-> s1, result |-> "Unreadable", exit |-> 1, authorized |-> FALSE]
        ELSE IF InvalidName(profile_name)
        THEN [s |-> s1, result |-> "InvalidName", exit |-> 1, authorized |-> FALSE]
        ELSE IF profile_exists(s1, profile_name) /\ ~merge
        THEN [s |-> s1, result |-> "AlreadyExists", exit |-> 1, authorized |-> FALSE]
        ELSE [s |-> ImportConfigurations(s2, profile_name, merge, configs, wallet, 1),
              result |-> "ok", exit |-> 0, authorized |-> FALSE]

----------------------------------------------------------------------------
(* CLI commands: commands/configure.py *)

\* int() and str() on the pool sizes of this model
PoolSizes == {<<"20", 20>>, <<"40", 40>>, <<"100", 100>>}
int(v) == (CHOOSE p \in PoolSizes : p[1] = v)[2]
str(n) == (CHOOSE p \in PoolSizes : p[2] = n)[1]

\* psutil.cpu_count(logical=True) to the recommended pool size
recommended_max_stream_pool_size(cpus) ==
    IF cpus >= 2 /\ cpus < 4 THEN 40 ELSE IF cpus >= 4 THEN 100 ELSE 20

\* max_stream_pool_size or existing or recommended, and never above recommended
final_max_stream_pool_size(existing_env_vars, given) ==
    LET recommended == recommended_max_stream_pool_size(given.cpus)
        chosen == IF given.max_stream_pool_size # ""
                  THEN given.max_stream_pool_size
                  ELSE Get(existing_env_vars, POOL, str(recommended))
    IN  IF int(chosen) > recommended THEN str(recommended) ELSE chosen

\* variant: the file is rebuilt from the template fields alone
MergeEnvVars_templateOnly(existing_env_vars, given) ==
    LET final_wallet_address ==
            IF given.wallet # "" THEN given.wallet
            ELSE Get(existing_env_vars, WALLET, "")
        with_wallet ==
            IF final_wallet_address # ""
            THEN Put(EmptyMap, WALLET, final_wallet_address)
            ELSE EmptyMap
        with_pool ==
            Put(with_wallet, POOL, final_max_stream_pool_size(existing_env_vars, given))
    IN  Put(with_pool, BRANCH, Get(existing_env_vars, BRANCH, "main"))

\* final_env_vars: the existing values, the fields given now, the defaults
MergeEnvVars(existing_env_vars, given) ==
    LET final_wallet_address ==
            IF given.wallet # "" THEN given.wallet
            ELSE Get(existing_env_vars, WALLET, "")
        with_wallet ==
            IF final_wallet_address # ""
            THEN Put(existing_env_vars, WALLET, final_wallet_address)
            ELSE existing_env_vars
        with_pool ==
            Put(with_wallet, POOL, final_max_stream_pool_size(existing_env_vars, given))
    IN  IF BRANCH \in DOMAIN with_pool THEN with_pool
        ELSE Put(with_pool, BRANCH, "main")

\* what one run is given: wallet is --wallet or what is typed at its prompt
\* ("": keep the default shown), max_stream_pool_size the flag ("": not
\* given), cpus the logical CPUs of the machine
Given(wallet) == [wallet |-> wallet, max_stream_pool_size |-> "", cpus |-> 4]
ConfigureInputs == {Given(wallet) : wallet \in WalletAnswers}

\* overwrite: the answer to "already exists. Overwrite? [y/N]"
configure_command(s, profile, env_profile, t, given, overwrite, io, now) ==
    LET f == NormalisedEnvFilename(t.chain, t.market, t.source_chain)
        s1 == ensure_profile_structure(s, io, now)
        active_profile == get_active_profile(s1, profile, env_profile)
        s2 == set_last_used_profile(s1, active_profile)
        s3 == MkdirProfile(s2, active_profile)
        had == <<ProfileFileExists(s3, active_profile, f), LegacyFileExists(s3, f),
                 CwdFileExists(s3, f)>>
        migrate == LegacyFileExists(s3, f) /\ active_profile = DEFAULT_PROFILE
        \* shutil.move(legacy_env_path, env_file_path)
        s4 == IF migrate
              THEN [WriteProfileFile(s3, active_profile, f, s3.legacy[f])
                        EXCEPT !.legacy = Drop(s3.legacy, f)]
              ELSE s3
        exists == ProfileFileExists(s4, active_profile, f)
        existing_env_vars == IF exists THEN ProfileFiles(s4, active_profile)[f]
                             ELSE EmptyMap
        level == IF migrate THEN "legacy" ELSE IF exists THEN "profile" ELSE "none"
        env_contents == MergeEnvVars(existing_env_vars, given)
    IN  IF exists /\ ~overwrite
        THEN [s |-> s4, result |-> "Aborted", exit |-> 1, authorized |-> FALSE,
              active |-> active_profile, level |-> level, had |-> had]
        ELSE [s |-> WriteProfileFile(s4, active_profile, f, env_contents),
              result |-> "ok", exit |-> 0, authorized |-> exists,
              active |-> active_profile, level |-> level, had |-> had]

----------------------------------------------------------------------------
(* CLI commands: commands/identity.py *)

\* list_env_files_with_profiles runs ensure_profile_structure, then only reads
list_identities(s, io, now) ==
    [s |-> ensure_profile_structure(s, io, now), result |-> "ok", exit |-> 0,
     authorized |-> FALSE]

show_identity(s, profile, env_profile, t) ==
    LET f == NormalisedEnvFilename(t.chain, t.market, t.source_chain)
        active_profile == get_active_profile(s, profile, env_profile)
        level == IdentityLevel(s, active_profile, f)
    IN  [s |-> s, result |-> IF level = "none" THEN "NotFound" ELSE "ok",
         exit |-> 0, authorized |-> FALSE,
         active |-> active_profile, level |-> level,
         had |-> <<ProfileFileExists(s, active_profile, f), LegacyFileExists(s, f),
                   CwdFileExists(s, f)>>]

\* answer: what the operator says at typer.confirm
delete_identity(s, profile, env_profile, t, answer) ==
    LET f == NormalisedEnvFilename(t.chain, t.market, t.source_chain)
        active_profile == get_active_profile(s, profile, env_profile)
        level == IdentityLevel(s, active_profile, f)
    IN  [s |-> IF level # "none" /\ answer
               THEN UnlinkAtLevel(s, active_profile, f, level) ELSE s,
         result |-> IF level = "none" THEN "NotFound"
                    ELSE IF answer THEN "ok" ELSE "Aborted",
         exit |-> 0, authorized |-> level # "none" /\ answer,
         active |-> active_profile, level |-> level,
         had |-> <<ProfileFileExists(s, active_profile, f), LegacyFileExists(s, f),
                   CwdFileExists(s, f)>>]

----------------------------------------------------------------------------
(* Actions: one CLI invocation each *)

Init ==
    /\ rootExists = FALSE
    /\ rootFiles = EmptyMap
    /\ profiles = EmptyMap
    /\ legacyExists \in BOOLEAN
    /\ legacyFiles \in
          IF legacyExists THEN {EmptyMap} \cup [EnvFiles -> {LegacyContent}]
          ELSE {EmptyMap}
    /\ cwdFiles \in {EmptyMap} \cup [EnvFiles -> {CwdContent}]
    /\ configFile = <<>>
    /\ clock = 0
    /\ last = NoOp
    /\ migration = NoMigration
    /\ race = NoRace
    /\ slotCheck = NoSlotCheck
    /\ monitor = NoMonitor

\* the invocation op, naming or resolving profile name, ended as r says
Step(op, name, via, r) ==
    /\ clock < MaxOps
    /\ clock' = clock + 1
    /\ Commit(r.s)
    /\ last' = [op |-> op, name |-> name, result |-> r.result, exit |-> r.exit,
                authorized |-> r.authorized, via |-> via]
    /\ UNCHANGED <<migration, race, slotCheck, monitor>>

ProfileList ==
    \E io \in IOOutcomes(Cur) :
        Step("list", NoName, "none", list_profiles_command(Cur, io, clock))

ProfileCreate ==
    \E name \in PositionalNames, io \in IOOutcomes(Cur) :
        Step("create", name, "none", create_profile_command(Cur, name, io, clock))

ProfileDelete ==
    \E name \in PositionalNames, force \in BOOLEAN, answer \in BOOLEAN,
       io \in IOOutcomes(Cur) :
        Step("delete", name, "none",
             delete_profile_command(Cur, name, force, answer, io, clock))

ProfileCopy ==
    \E source \in PositionalNames, destination \in PositionalNames,
       io \in IOOutcomes(Cur) :
        Step("copy", destination, "none",
             copy_profile_command(Cur, source, destination, io, clock))

ProfileSetDefault ==
    \E name \in PositionalNames, io \in IOOutcomes(Cur) :
        Step("set-default", name, "none",
             set_default_profile_command(Cur, name, io, clock))

ProfileShow ==
    \E name \in PositionalNames, io \in IOOutcomes(Cur) :
        Step("show", name, "none", show_profile_command(Cur, name, io, clock))

ProfileExport ==
    \E name \in PositionalNames, include_credentials \in BOOLEAN,
       io \in IOOutcomes(Cur) :
        Step("export", name, "none",
             export_profile_command(Cur, name, include_credentials, io, clock))

ProfileImport ==
    \E readable \in BOOLEAN, name \in PositionalNames, merge \in BOOLEAN,
       configs \in ImportConfigs, wallet \in WalletAnswers, io \in IOOutcomes(Cur) :
        Step("import", name, "none",
             import_profile_command(Cur, readable, name, merge, configs, wallet,
                                    io, clock))

Configure ==
    \E profile \in OptionalNames, env_profile \in OptionalNames, t \in InputTriples,
       given \in ConfigureInputs, overwrite \in BOOLEAN, io \in IOOutcomes(Cur) :
        LET r == configure_command(Cur, profile, env_profile, t, given, overwrite,
                                   io, clock)
        IN  Step("configure", r.active, ActiveSource(profile, env_profile), r)

IdentityList ==
    \E io \in IOOutcomes(Cur) :
        Step("identity list", NoName, "none", list_identities(Cur, io, clock))

IdentityShow ==
    \E profile \in OptionalNames, env_profile \in OptionalNames, t \in InputTriples :
        LET r == show_identity(Cur, profile, env_profile, t)
        IN  Step("identity show", r.active, ActiveSource(profile, env_profile), r)

IdentityDelete ==
    \E profile \in OptionalNames, env_profile \in OptionalNames, t \in InputTriples,
       answer \in BOOLEAN :
        LET r == delete_identity(Cur, profile, env_profile, t, answer)
        IN  Step("identity delete", r.active, ActiveSource(profile, env_profile), r)

Next ==
    \/ ProfileList
    \/ ProfileCreate
    \/ ProfileDelete
    \/ ProfileCopy
    \/ ProfileSetDefault
    \/ ProfileShow
    \/ ProfileExport
    \/ ProfileImport
    \/ Configure
    \/ IdentityList
    \/ IdentityShow
    \/ IdentityDelete

Spec == Init /\ [][Next]_vars

----------------------------------------------------------------------------
(* The store used as a library: delete_profile called directly.  No command *)
(* passes force=True, so this is the only way the override is exercised.    *)

StoreDeleteProfile ==
    \E name \in DirNames, force \in BOOLEAN :
        LET r == delete_profile(Cur, name, force)
        IN  Step("delete_profile", name, "none",
                 [s |-> r.s, result |-> r.why, exit |-> IF r.ok THEN 0 ELSE 1,
                  authorized |-> force])

NextAPI ==
    \/ Next
    \/ StoreDeleteProfile

SpecAPI == Init /\ [][NextAPI]_vars

----------------------------------------------------------------------------
(* Active-profile resolution on its own: any store and config.json, then    *)
(* commands that only resolve and read.                                      *)

ConfigNames == DirNames \cup {Dot}

InitResolve ==
    /\ rootExists \in BOOLEAN
    /\ rootFiles = EmptyMap
    /\ profiles \in
          IF rootExists THEN UNION {[d -> {EmptyMap}] : d \in SUBSET DirNames}
          ELSE {EmptyMap}
    /\ legacyExists = FALSE
    /\ legacyFiles = EmptyMap
    /\ cwdFiles = EmptyMap
    /\ configFile \in
          {<<>>} \cup
          {<<[default_profile |-> d, last_used_profile |-> l, profiles |-> EmptyMap]>> :
               d \in ConfigNames, l \in ConfigNames}
    /\ clock = 0
    /\ last = NoOp
    /\ migration = NoMigration
    /\ race = NoRace
    /\ slotCheck = NoSlotCheck
    /\ monitor = NoMonitor

SpecResolve == InitResolve /\ [][IdentityShow]_vars

----------------------------------------------------------------------------
(* migrate_legacy_configs rename by rename: the call can raise OSError at    *)
(* any rename, and the process can be killed between any two of them.        *)

MigrateFiles ==
    { FormatEnvFilename(<<"m">>, <<"u">>, <<"e", "_", "m">>),
      FormatEnvFilename(<<"d">>, <<"u">>, <<"e">>),
      FormatEnvFilename(<<"m">>, <<"a">>, <<"e", "-", "m">>) }

InitMigrate ==
    /\ rootExists = FALSE
    /\ rootFiles = EmptyMap
    /\ profiles = EmptyMap
    /\ legacyExists = TRUE
    /\ legacyFiles \in
          UNION {[d -> {LegacyContent, CwdContent}] : d \in SUBSET MigrateFiles}
    /\ cwdFiles = EmptyMap
    /\ configFile = <<>>
    /\ clock = 0
    /\ last = NoOp
    /\ migration = NoMigration
    /\ race = NoRace
    /\ slotCheck = NoSlotCheck
    /\ monitor = NoMonitor

\* the store does not change in this step, nor does the invocation record
StoreUnchanged ==
    UNCHANGED <<rootExists, rootFiles, profiles, legacyExists, legacyFiles,
                cwdFiles, configFile, clock, last, race, slotCheck,
                monitor>>

\* the two mkdir calls and the glob
MigrateBegin ==
    /\ migration.pc = "idle"
    /\ ~rootExists /\ legacyExists
    /\ Commit(MkdirProfile(Cur, DEFAULT_PROFILE))
    /\ migration' = [pc |-> "renaming", env_files |-> DOMAIN legacyFiles,
                     files |-> legacyFiles, at |-> clock, ok |-> FALSE]
    /\ UNCHANGED <<clock, last, race, slotCheck, monitor>>

\* one turn of the loop
MigrateRename ==
    /\ migration.pc = "renaming"
    /\ \E f \in migration.env_files :
           /\ Commit(RenameLegacyFile(Cur, f))
           /\ migration' = [migration EXCEPT !.env_files = @ \ {f}]
    /\ UNCHANGED <<clock, last, race, slotCheck, monitor>>

\* a rename raises OSError: except OSError ... return False
MigrateRenameFails ==
    /\ migration.pc = "renaming"
    /\ migration.env_files # {}
    /\ migration' = [migration EXCEPT !.pc = "failed", !.ok = FALSE]
    /\ StoreUnchanged

\* after the loop: add_profile, set_default_profile, return True
MigrateRegister ==
    /\ migration.pc = "renaming"
    /\ migration.env_files = {}
    /\ Commit(set_default_profile(
                  add_profile(Cur, DEFAULT_PROFILE,
                              <<"Migrated from legacy configuration">>, migration.at),
                  DEFAULT_PROFILE))
    /\ migration' = [migration EXCEPT !.pc = "done", !.ok = TRUE]
    /\ UNCHANGED <<clock, last, race, slotCheck, monitor>>

\* the process dies inside the call
MigrateKilled ==
    /\ migration.pc = "renaming"
    /\ migration' = [migration EXCEPT !.pc = "killed", !.ok = FALSE]
    /\ StoreUnchanged

\* a later invocation, after the call has ended one way or another
ListAfterMigration ==
    /\ migration.pc \in {"done", "failed", "killed"}
    /\ ProfileList

NextMigrate ==
    \/ MigrateBegin
    \/ MigrateRename
    \/ MigrateRenameFails
    \/ MigrateRegister
    \/ MigrateKilled
    \/ ListAfterMigration

SpecMigrate == InitMigrate /\ [][NextMigrate]_vars

----------------------------------------------------------------------------
(* Listing: any directories under PROFILES_DIR and any config.json, whether  *)
(* or not they agree, then `profile list`.                                   *)

ListNames == {<<"a">>, <<"B">>, <<"a", "b">>, DEFAULT_PROFILE}
OneFile == [f \in EnvFiles |-> CwdContent]
SomeMeta == [created |-> 0, description |-> <<"Default profile">>]

InitList ==
    /\ rootExists \in BOOLEAN
    /\ rootFiles = EmptyMap
    /\ profiles \in
          IF rootExists
          THEN UNION {[d -> {EmptyMap, OneFile}] : d \in SUBSET ListNames}
          ELSE {EmptyMap}
    /\ legacyExists = FALSE
    /\ legacyFiles = EmptyMap
    /\ cwdFiles = EmptyMap
    /\ configFile \in
          {<<>>} \cup
          {<<[default_profile |-> d, last_used_profile |-> l,
              profiles |-> [n \in m |-> SomeMeta]]>> :
               d \in {DEFAULT_PROFILE, <<"a">>}, l \in {DEFAULT_PROFILE, <<"B">>},
               m \in SUBSET ListNames}
    /\ clock = 0
    /\ last = NoOp
    /\ migration = NoMigration
    /\ race = NoRace
    /\ slotCheck = NoSlotCheck
    /\ monitor = NoMonitor

SpecList == InitList /\ [][ProfileList]_vars

----------------------------------------------------------------------------
(* configure on a profile whose credential file holds any of the keys, with  *)
(* any of the flags, answers and CPU counts. The pool sizes in the files are *)
(* sizes configure itself writes (20 on one CPU, 100 on four).               *)

ExistingContents ==
    UNION { [ks -> {"0xABC", "dev", "20", "100", "9090"}] :
                ks \in SUBSET {WALLET, BRANCH, POOL, CUSTOM} }
PlausibleContent(c) ==
    /\ WALLET \in DOMAIN c => c[WALLET] = "0xABC"
    /\ BRANCH \in DOMAIN c => c[BRANCH] = "dev"
    /\ POOL \in DOMAIN c => c[POOL] \in {"20", "100"}
    /\ CUSTOM \in DOMAIN c => c[CUSTOM] = "9090"

RewriteInputs ==
    { [wallet |-> w, max_stream_pool_size |-> m, cpus |-> c] :
          w \in WalletAnswers, m \in {"", "40"}, c \in {1, 2, 4} }

InitConfigure ==
    /\ rootExists = TRUE
    /\ rootFiles = EmptyMap
    /\ profiles \in
          { [d \in {DEFAULT_PROFILE} |-> files] :
                files \in {EmptyMap} \cup
                          { [f \in EnvFiles |-> c] :
                                c \in {x \in ExistingContents : PlausibleContent(x)} } }
    /\ legacyExists = FALSE
    /\ legacyFiles = EmptyMap
    /\ cwdFiles = EmptyMap
    /\ configFile = <<[DefaultConfig EXCEPT
                           !.profiles = [n \in {DEFAULT_PROFILE} |-> SomeMeta]]>>
    /\ clock = 0
    /\ last = NoOp
    /\ migration = NoMigration
    /\ race = NoRace
    /\ slotCheck = NoSlotCheck
    /\ monitor = NoMonitor

ConfigureRewrite ==
    \E t \in InputTriples, given \in RewriteInputs, overwrite \in BOOLEAN :
        LET r == configure_command(Cur, NoName, NoName, t, given, overwrite,
                                   NoFailure, clock)
        IN  Step("configure", r.active, "none", r)

SpecConfigure == InitConfigure /\ [][ConfigureRewrite]_vars

-----------------------------------------------------------------------------
(* configure on a store in use: two registered profiles, each with or        *)
(* without the credential file, a credential file possibly still in envs/,  *)
(* and any pointers in config.json; the overwrite prompt answered either way *)

InitPrompt ==
    /\ rootExists = TRUE
    /\ rootFiles = EmptyMap
    /\ profiles \in [DirNames -> {EmptyMap} \cup [EnvFiles -> {CwdContent}]]
    /\ legacyExists = TRUE
    /\ legacyFiles \in {EmptyMap} \cup [EnvFiles -> {LegacyContent}]
    /\ cwdFiles = EmptyMap
    /\ configFile \in
          { <<[default_profile |-> d, last_used_profile |-> l,
               profiles |-> [n \in DirNames |-> SomeMeta]]>> :
                d \in DirNames, l \in DirNames }
    /\ clock = 0
    /\ last = NoOp
    /\ migration = NoMigration
    /\ race = NoRace
    /\ slotCheck = NoSlotCheck
    /\ monitor = NoMonitor

ConfigureAtPrompt ==
    \E profile \in {NoName, Alice}, t \in InputTriples, given \in ConfigureInputs,
       overwrite \in BOOLEAN :
        LET r == configure_command(Cur, profile, NoName, t, given, overwrite,
                                   NoFailure, clock)
        IN  Step("configure", r.active, ActiveSource(profile, NoName), r)

SpecPrompt == InitPrompt /\ [][ConfigureAtPrompt]_vars

----------------------------------------------------------------------------
(* Two CLI invocations running at once on one store, call by call. Nothing   *)
(* in ProfileConfig locks config.json: __init__ reads it, add_profile and    *)
(* set_default_profile change the object, save opens the file for writing    *)
(* (which empties it) and dumps the object.                                  *)

Bob == <<"b">>
Procs == {1, 2}
RaceCommands ==
    { [cmd |-> "create", name |-> Alice], [cmd |-> "create", name |-> Bob],
      [cmd |-> "set-default", name |-> Alice],
      [cmd |-> "set-default", name |-> DEFAULT_PROFILE] }

InitRace ==
    /\ rootExists = TRUE
    /\ rootFiles = EmptyMap
    /\ profiles \in {[d \in {DEFAULT_PROFILE} |-> EmptyMap],
                     [d \in {DEFAULT_PROFILE, Alice} |-> OneFile]}
    /\ legacyExists = FALSE
    /\ legacyFiles = EmptyMap
    /\ cwdFiles = EmptyMap
    /\ configFile \in
          {<<>>} \cup
          {<<[default_profile |-> d, last_used_profile |-> DEFAULT_PROFILE,
              profiles |-> [n \in DOMAIN profiles |-> SomeMeta]]>> :
               d \in DOMAIN profiles}
    /\ clock = 0
    /\ last = NoOp
    /\ migration = NoMigration
    /\ slotCheck = NoSlotCheck
    /\ monitor = NoMonitor
    /\ race \in [Procs -> {[cmd |-> c.cmd, name |-> c.name, pc |-> "start",
                            loaded |-> <<>>, towrite |-> <<>>, result |-> "none",
                            exit |-> 0, wrote |-> 0] : c \in RaceCommands}]

RaceKeeps == UNCHANGED <<rootExists, rootFiles, legacyExists, legacyFiles,
                         cwdFiles, clock, last, migration, slotCheck,
                         monitor>>

\* self.config at the time of save: what __init__ read; save reads nothing
ConfigAtSave_reread(loaded, on_disk) == on_disk

ConfigAtSave(loaded, on_disk) == loaded

\* the document invocation p dumps: its method applied to the object it holds
DocumentToDump(p) ==
    LET held == [Cur EXCEPT !.cfgFile = ConfigAtSave(race[p].loaded, configFile)]
    IN  IF race[p].cmd = "create"
        THEN add_profile(held, race[p].name, <<>>, clock).cfgFile
        ELSE set_default_profile(held, race[p].name).cfgFile

\* ensure_profile_structure finds the root and "default" and does nothing;
\* then create_profile: profile_dir.exists(), or set-default: profile_exists
RaceCheck(p) ==
    /\ race[p].pc = "start"
    /\ race' = [race EXCEPT ![p] =
                   IF race[p].cmd = "create"
                   THEN IF profile_dir_exists(Cur, race[p].name)
                        THEN [@ EXCEPT !.pc = "done", !.result = "AlreadyExists",
                                       !.exit = 1]
                        ELSE [@ EXCEPT !.pc = "checked"]
                   ELSE IF ~profile_exists(Cur, race[p].name)
                        THEN [@ EXCEPT !.pc = "done", !.result = "NotFound",
                                       !.exit = 1]
                        ELSE [@ EXCEPT !.pc = "made"]]
    /\ RaceKeeps
    /\ UNCHANGED <<profiles, configFile>>

\* profile_dir.mkdir(parents=True, exist_ok=True)
RaceMkdir(p) ==
    /\ race[p].pc = "checked"
    /\ profiles' = MkdirProfile(Cur, race[p].name).dirs
    /\ race' = [race EXCEPT ![p].pc = "made"]
    /\ RaceKeeps
    /\ UNCHANGED configFile

\* config = ProfileConfig()
RaceLoad(p) ==
    /\ race[p].pc = "made"
    /\ race' = [race EXCEPT ![p].pc = "loaded", ![p].loaded = configFile]
    /\ RaceKeeps
    /\ UNCHANGED <<profiles, configFile>>

\* the method changes self.config; save: open(self.config_file, "w")
RaceOpen(p) ==
    /\ race[p].pc = "loaded"
    /\ race' = [race EXCEPT ![p].pc = "opened", ![p].towrite = DocumentToDump(p)]
    /\ configFile' = <<Truncated>>
    /\ RaceKeeps
    /\ UNCHANGED profiles

\* json.dump(self.config, f); the command prints its success line
RaceDump(p) ==
    /\ race[p].pc = "opened"
    /\ configFile' = race[p].towrite
    /\ race' = [race EXCEPT ![p].pc = "done", ![p].result = "ok",
                            ![p].wrote = 1 + race[3 - p].wrote]
    /\ RaceKeeps
    /\ UNCHANGED profiles

NextRace ==
    \E p \in Procs :
        \/ RaceCheck(p)
        \/ RaceMkdir(p)
        \/ RaceLoad(p)
        \/ RaceOpen(p)
        \/ RaceDump(p)

SpecRace == InitRace /\ [][NextRace]_vars

----------------------------------------------------------------------------
(* check_slots.py: one run of the script, statement group by statement group *)

SlotIds == {1, 2}
\* names `docker ps | grep` can print: snapshotter-lite-v2-<slot>-mainnet-<ns>-ETH
ContainerNames ==
    { [slot |-> 1, namespace |-> "UNISWAPV2"], [slot |-> 1, namespace |-> "AAVEV3"],
      [slot |-> 2, namespace |-> "UNISWAPV2"], [slot |-> 3, namespace |-> "UNISWAPV2"] }

InitSlots ==
    /\ rootExists = FALSE
    /\ rootFiles = EmptyMap
    /\ profiles = EmptyMap
    /\ legacyExists = FALSE
    /\ legacyFiles = EmptyMap
    /\ cwdFiles = EmptyMap
    /\ configFile = <<>>
    /\ clock = 0
    /\ last = NoOp
    /\ migration = NoMigration
    /\ race = NoRace
    /\ monitor = NoMonitor
    /\ slotCheck \in
          { [pc |-> "start", exit |-> 0, why |-> "none", running_slots |-> EmptyMap,
             env_file |-> e, wallet_holder_address |-> w, rpc_ok |-> r,
             calls_ok |-> k, slot_ids |-> o, containers |-> c] :
                e \in BOOLEAN, w \in {"", "0xABC"}, r \in BOOLEAN, k \in BOOLEAN,
                o \in SUBSET SlotIds, c \in SUBSET ContainerNames }

SlotsKeep == UNCHANGED <<rootExists, rootFiles, profiles, legacyExists,
                         legacyFiles, cwdFiles, configFile, clock, last,
                         migration, race, monitor>>

\* the process ends with this status
SysExit(status, why) ==
    slotCheck' = [slotCheck EXCEPT !.pc = "exited", !.exit = status, !.why = why]

\* `return` from main: the script ends normally, status 0
NoSlotsExit == SysExit(0, "NoSlots")

\* get_running_slots: the slot id of each container name, with its names
get_running_slots(containers) ==
    [slot_id \in {c.slot : c \in containers} |->
        {c \in containers : c.slot = slot_id}]

\* if not os.path.exists(".env")
SlotsEnvFile ==
    /\ slotCheck.pc = "start"
    /\ IF ~slotCheck.env_file THEN SysExit(1, "NoEnvFile")
       ELSE slotCheck' = [slotCheck EXCEPT !.pc = "env"]
    /\ SlotsKeep

\* load_dotenv; if not wallet_holder_address
SlotsWallet ==
    /\ slotCheck.pc = "env"
    /\ IF slotCheck.wallet_holder_address = "" THEN SysExit(1, "NoWallet")
       ELSE slotCheck' = [slotCheck EXCEPT !.pc = "connect"]
    /\ SlotsKeep

\* try: Web3, the ABI files, get_block_number; except Exception: sys.exit(1)
SlotsConnect ==
    /\ slotCheck.pc = "connect"
    /\ IF ~slotCheck.rpc_ok THEN SysExit(1, "RpcFailure")
       ELSE slotCheck' = [slotCheck EXCEPT !.pc = "fetch"]
    /\ SlotsKeep

\* the contract calls and get_user_slots; an exception here reaches the
\* handler under __main__; if not slot_ids: return
SlotsFetch ==
    /\ slotCheck.pc = "fetch"
    /\ IF ~slotCheck.calls_ok THEN SysExit(1, "Unexpected")
       ELSE IF slotCheck.slot_ids = {} THEN NoSlotsExit
       ELSE slotCheck' = [slotCheck EXCEPT !.pc = "scan"]
    /\ SlotsKeep

\* get_running_slots() and get_screen_sessions()
SlotsScan ==
    /\ slotCheck.pc = "scan"
    /\ slotCheck' = [slotCheck EXCEPT !.pc = "summary",
                         !.running_slots = get_running_slots(slotCheck.containers)]
    /\ SlotsKeep

\* the summary, then: if not_running: sys.exit(1) else: sys.exit(0)
SlotsSummary ==
    /\ slotCheck.pc = "summary"
    /\ LET running_slot_ids == DOMAIN slotCheck.running_slots
           owned_slot_ids == slotCheck.slot_ids
           not_running == owned_slot_ids \ running_slot_ids
       IN  IF not_running # {} THEN SysExit(1, "NotRunning")
           ELSE SysExit(0, "AllRunning")
    /\ SlotsKeep

\* except KeyboardInterrupt: sys.exit(130)
SlotsInterrupt ==
    /\ slotCheck.pc # "exited"
    /\ SysExit(130, "Interrupted")
    /\ SlotsKeep

NextSlots ==
    \/ SlotsEnvFile
    \/ SlotsWallet
    \/ SlotsConnect
    \/ SlotsFetch
    \/ SlotsScan
    \/ SlotsSummary
    \/ SlotsInterrupt

SpecSlots == InitSlots /\ [][NextSlots]_vars

----------------------------------------------------------------------------
(* monitor deploy: monitor_deploy_command and deploy_monitor_service, one    *)
(* run followed step by step. The chain has two markets; the credential      *)
(* files live in CONFIG_DIR (the envs/ directory) and the working directory. *)

\* the selected Powerloom chain, as --env gives it after .upper()
MonitorChain == <<"M">>

\* chain_data.markets of that chain, in the order of its keys
Markets ==
    << [name |-> <<"U">>, sourceChain |-> <<"E", "-", "M">>],
       [name |-> <<"A">>, sourceChain |-> <<"E">>] >>

\* CONFIG_ENV_FILENAME_TEMPLATE.format(chain.lower(), market.lower(),
\*                                     sourceChain.lower().replace("-", "_"))
MarketEnvFilename(market) ==
    NormalisedEnvFilename(MonitorChain, market.name, market.sourceChain)

MarketFiles == {MarketEnvFilename(Markets[i]) : i \in DOMAIN Markets}

\* the wallet each market's credential file holds, by where the file lies
MarketFileContent(f, place) ==
    Put(EmptyMap, WALLET,
        IF place = "config"
        THEN (IF f = MarketEnvFilename(Markets[1]) THEN "0xABC" ELSE "0xA11")
        ELSE "0xDEF")

\* the monitor instance directory of the chain: absent
NoInstance == [exists |-> FALSE, has_env |-> FALSE, wallet |-> "", market |-> 0]

\* the instance directory a running deployment left
RunningInstance == [exists |-> TRUE, has_env |-> TRUE, wallet |-> "0x0LD", market |-> 1]

InitMonitor ==
    /\ rootExists = FALSE
    /\ rootFiles = EmptyMap
    /\ profiles = EmptyMap
    /\ legacyExists = TRUE
    /\ \E present \in SUBSET MarketFiles :
          legacyFiles = [f \in present |-> MarketFileContent(f, "config")]
    /\ \E present \in SUBSET MarketFiles :
          cwdFiles = [f \in present |-> MarketFileContent(f, "cwd")]
    /\ configFile = <<>>
    /\ clock = 0
    /\ last = NoOp
    /\ migration = NoMigration
    /\ race = NoRace
    /\ slotCheck = NoSlotCheck
    /\ monitor \in
          { [pc |-> "select", selected |-> 0, wallet_address_opt |-> "",
             environ |-> e, parsed |-> NoName, namespaced_env_content |-> EmptyMap,
             final_wallet_address |-> "", tmp |-> t, tmp_created |-> FALSE,
             instance |-> i, instance_at_start |-> i, session |-> s,
             cwd |-> "start", original_cwd |-> "start", changed_dir |-> FALSE,
             cleanup_failed |-> FALSE, why |-> "none", exit |-> 0] :
                e \in {"", "0xE9F"}, t \in BOOLEAN,
                i \in {NoInstance, RunningInstance}, s \in BOOLEAN }

MonitorKeeps == UNCHANGED <<rootExists, rootFiles, profiles, legacyExists,
                            legacyFiles, cwdFiles, configFile, clock, last,
                            migration, race, slotCheck>>

\* the `finally` of monitor_deploy_command, then the end of the process:
\* a temporary clone that exists is removed, unless rmtree raises OSError
\* variant: the clone is cleaned up on the successful path only
MonitorExit_successOnly(m, status, why, rm_ok) ==
    [m EXCEPT !.pc = "exited", !.exit = status, !.why = why,
              !.tmp = IF m.tmp /\ status = 0 /\ rm_ok THEN FALSE ELSE m.tmp,
              !.cleanup_failed = m.tmp /\ ~rm_ok]

MonitorExit(m, status, why, rm_ok) ==
    [m EXCEPT !.pc = "exited", !.exit = status, !.why = why,
              !.tmp = IF m.tmp /\ rm_ok THEN FALSE ELSE m.tmp,
              !.cleanup_failed = m.tmp /\ ~rm_ok]

\* the `finally` of deploy_monitor_service: os.chdir(original_cwd)
RestoreCwd(m) == [m EXCEPT !.cwd = m.original_cwd]

\* get_credential(key, chain, explicit_value, preparsed_env_map)
get_credential(key, explicit, environ, env_map) ==
    IF explicit # "" THEN explicit
    ELSE IF environ # "" THEN environ
    ELSE Get(env_map, key, "")

\* market selection: --market, or the prompt answered by number or name
MonitorSelectMarket ==
    /\ monitor.pc = "select"
    /\ \E i \in DOMAIN Markets, opt \in WalletAnswers :
          monitor' = [monitor EXCEPT !.pc = "load", !.selected = i,
                                     !.wallet_address_opt = opt]
    /\ MonitorKeeps

\* load of the namespaced credential file: the file of the chain's first market
MonitorLoadEnv ==
    /\ monitor.pc = "load"
    /\ LET potential_config_filename == MarketEnvFilename(Markets[1])
       IN  monitor' =
             IF LegacyFileExists(Cur, potential_config_filename)
             THEN [monitor EXCEPT !.pc = "resolve",
                       !.parsed = potential_config_filename,
                       !.namespaced_env_content = legacyFiles[potential_config_filename]]
             ELSE IF CwdFileExists(Cur, potential_config_filename)
             THEN [monitor EXCEPT !.pc = "resolve",
                       !.parsed = potential_config_filename,
                       !.namespaced_env_content = cwdFiles[potential_config_filename]]
             ELSE [monitor EXCEPT !.pc = "resolve"]
    /\ MonitorKeeps

\* wallet resolution; an empty result ends the command with status 1
MonitorResolveWallet ==
    /\ monitor.pc = "resolve"
    /\ LET final_wallet_address ==
               get_credential(WALLET, monitor.wallet_address_opt, monitor.environ,
                              monitor.namespaced_env_content)
       IN  \E rm_ok \in BOOLEAN :
             monitor' =
               IF final_wallet_address = ""
               THEN MonitorExit(monitor, 1, "NoWallet", rm_ok)
               ELSE [monitor EXCEPT !.pc = "prepare",
                                    !.final_wallet_address = final_wallet_address]
    /\ MonitorKeeps

\* the temporary base clone directory: a stale one is removed, a new one made
MonitorPrepareClone ==
    /\ monitor.pc = "prepare"
    /\ \E stale_rm_ok \in BOOLEAN, mkdir_ok \in BOOLEAN, rm_ok \in BOOLEAN :
          monitor' =
            IF monitor.tmp /\ ~stale_rm_ok
            THEN MonitorExit(monitor, 1, "StaleCloneNotRemoved", rm_ok)
            ELSE IF ~mkdir_ok
            THEN MonitorExit([monitor EXCEPT !.tmp = FALSE], 1, "CloneDirNotCreated", rm_ok)
            ELSE [monitor EXCEPT !.pc = "clone", !.tmp = TRUE, !.tmp_created = TRUE]
    /\ MonitorKeeps

\* git clone into the temporary directory; on failure the directory is
\* removed there (an OSError of that rmtree propagates to the `finally`)
MonitorClone ==
    /\ monitor.pc = "clone"
    /\ \E git_result \in BOOLEAN, first_rm_ok \in BOOLEAN, rm_ok \in BOOLEAN :
          monitor' =
            IF ~git_result
            THEN MonitorExit([monitor EXCEPT !.tmp = ~first_rm_ok], 1, "CloneFailed", rm_ok)
            ELSE [monitor EXCEPT !.pc = "reset"]
    /\ MonitorKeeps

\* deploy_monitor_service: an existing instance directory is removed and an
\* empty one made
DeployReset ==
    /\ monitor.pc = "reset"
    /\ \E rmtree_ok \in BOOLEAN, mkdir_ok \in BOOLEAN, rm_ok \in BOOLEAN :
          monitor' =
            IF monitor.instance.exists /\ ~rmtree_ok
            THEN MonitorExit(monitor, 1, "InstanceNotRemoved", rm_ok)
            ELSE IF ~mkdir_ok
            THEN MonitorExit([monitor EXCEPT !.instance = NoInstance], 1,
                             "InstanceNotCreated", rm_ok)
            ELSE [monitor EXCEPT !.pc = "copy",
                                 !.instance = [NoInstance EXCEPT !.exists = TRUE]]
    /\ MonitorKeeps

\* deploy_monitor_service: copytree of the base clone into the instance directory
DeployCopy ==
    /\ monitor.pc = "copy"
    /\ \E copy_ok \in BOOLEAN, rm_ok \in BOOLEAN :
          monitor' =
            IF ~copy_ok
            THEN MonitorExit(monitor, 1, "CopyFailed", rm_ok)
            ELSE [monitor EXCEPT !.pc = "env"]
    /\ MonitorKeeps

\* deploy_monitor_service: .env generated from env.example, with the wallet
\* and the selected market's addresses
DeployWriteEnv ==
    /\ monitor.pc = "env"
    /\ \E env_example \in BOOLEAN, write_ok \in BOOLEAN, rm_ok \in BOOLEAN :
          monitor' =
            IF ~env_example
            THEN MonitorExit(monitor, 1, "NoEnvExample", rm_ok)
            ELSE IF ~write_ok
            THEN MonitorExit(monitor, 1, "EnvNotWritten", rm_ok)
            ELSE [monitor EXCEPT !.pc = "chdir",
                      !.instance = [exists |-> TRUE, has_env |-> TRUE,
                                    wallet |-> monitor.final_wallet_address,
                                    market |-> monitor.selected]]
    /\ MonitorKeeps

\* deploy_monitor_service: original_cwd is recorded, then os.chdir
DeployChdir ==
    /\ monitor.pc = "chdir"
    /\ \E chdir_ok \in BOOLEAN, rm_ok \in BOOLEAN :
          monitor' =
            IF ~chdir_ok
            THEN MonitorExit(RestoreCwd([monitor EXCEPT !.original_cwd = monitor.cwd]),
                             1, "Exception", rm_ok)
            ELSE [monitor EXCEPT !.pc = "screen", !.original_cwd = monitor.cwd,
                                 !.cwd = "instance", !.changed_dir = TRUE]
    /\ MonitorKeeps

\* deploy_monitor_service: the screen session is checked, created and given
\* the build command; every return passes through the `finally`
DeployScreen ==
    /\ monitor.pc = "screen"
    /\ \E create_ok \in BOOLEAN, stuff_ok \in BOOLEAN, rm_ok \in BOOLEAN :
          monitor' =
            IF monitor.session
            THEN MonitorExit(RestoreCwd(monitor), 1, "SessionExists", rm_ok)
            ELSE IF ~create_ok
            THEN MonitorExit(RestoreCwd(monitor), 1, "SessionNotCreated", rm_ok)
            ELSE IF ~stuff_ok
            THEN MonitorExit(RestoreCwd(monitor), 1, "CommandNotSent", rm_ok)
            ELSE MonitorExit(RestoreCwd([monitor EXCEPT !.session = TRUE]),
                             0, "Deployed", rm_ok)
    /\ MonitorKeeps

NextMonitor ==
    \/ MonitorSelectMarket
    \/ MonitorLoadEnv
    \/ MonitorResolveWallet
    \/ MonitorPrepareClone
    \/ MonitorClone
    \/ DeployReset
    \/ DeployCopy
    \/ DeployWriteEnv
    \/ DeployChdir
    \/ DeployScreen

SpecMonitor == InitMonitor /\ [][NextMonitor]_vars

----------------------------------------------------------------------------
(* Properties *)

Config == _load_config(Cur)

\* C1: at every reachable state, default_profile and last_used_profile of
\* config.json each name a profile whose directory exists, or are "default".
\* Refuted: `profile delete .` removes the whole profiles root and prunes
\* nothing from config.json.
C1_PointersNameExistingProfiles ==
    \A n \in {Config.default_profile, Config.last_used_profile} :
        n = DEFAULT_PROFILE \/ profile_exists(Cur, n)

\* C2: an explicit profile that does not exist resolves to "default" whatever
\* POWERLOOM_PROFILE and config.json hold; with no explicit profile, a
\* POWERLOOM_PROFILE that does not exist resolves to "default" whatever
\* config.json holds.  No lower-precedence source is consulted.
C2_MissingProfileResolvesToDefault ==
    /\ \A e \in OptionalNames \ {NoName}, v \in OptionalNames :
           ~profile_exists(Cur, e) => get_active_profile(Cur, e, v) = DEFAULT_PROFILE
    /\ \A v \in OptionalNames \ {NoName} :
           ~profile_exists(Cur, v) => get_active_profile(Cur, NoName, v) = DEFAULT_PROFILE

\* a resolution answered "default" from --profile or POWERLOOM_PROFILE while
\* config.json's default_profile names another, existing profile
C2_Witness ==
    /\ last.op = "identity show"
    /\ last.via \in {"explicit", "env"}
    /\ last.name = DEFAULT_PROFILE
    /\ ~profile_exists(Cur, DEFAULT_PROFILE)
    /\ Config.default_profile = Alice
    /\ profile_exists(Cur, Alice)

\* C3: with neither --profile nor POWERLOOM_PROFILE, the active profile is
\* default_profile if that profile exists, else last_used_profile if it is not
\* "default" and exists, else "default"; resolving changes neither config.json
\* nor any directory.
C3_ConfigPrecedence ==
    LET d == Config.default_profile
        l == Config.last_used_profile
        usable == l # DEFAULT_PROFILE /\ profile_exists(Cur, l)
        a == get_active_profile(Cur, NoName, NoName)
    IN  /\ profile_exists(Cur, d) => a = d
        /\ ~profile_exists(Cur, d) /\ usable => a = l
        /\ ~profile_exists(Cur, d) /\ ~usable => a = DEFAULT_PROFILE
        /\ \A t \in InputTriples : show_identity(Cur, NoName, NoName, t).s = Cur

\* a resolution from config.json answered last_used_profile because
\* default_profile names no existing profile
C3_Witness ==
    /\ last.op = "identity show"
    /\ last.via = "config"
    /\ last.name = Alice
    /\ Config.last_used_profile = Alice
    /\ Config.default_profile = DEFAULT_PROFILE
    /\ ~profile_exists(Cur, DEFAULT_PROFILE)

\* names that pass the name rule of the commands
ValidNames == {n \in PositionalNames : ~InvalidName(n)}

\* C4: for a valid name that does not exist yet, create_profile succeeds and
\* the profile then exists; creating it again fails and changes nothing.  The
\* create command answers AlreadyExists the second time.
C4_CreateThenAlreadyExists ==
    /\ \A n \in ValidNames :
           ~profile_exists(Cur, n) =>
               LET r1 == create_profile(Cur, n, <<>>, clock)
                   r2 == create_profile(r1.s, n, <<>>, clock + 1)
               IN  /\ r1.ok
                   /\ profile_exists(r1.s, n)
                   /\ ~r2.ok
                   /\ r2.s = r1.s
    /\ \A n \in ValidNames, io \in IOOutcomes(Cur) :
           LET c1 == create_profile_command(Cur, n, io, clock)
               c2 == create_profile_command(c1.s, n, NoFailure, clock + 1)
           IN  /\ profile_exists(c1.s, n)
               /\ c1.result \in {"ok", "AlreadyExists"}
               /\ c1.result = "AlreadyExists" =>
                      profile_exists(ensure_profile_structure(Cur, io, clock), n)
               /\ c2.result = "AlreadyExists"
               /\ c2.exit = 1
               /\ c2.s = c1.s

\* the create command was run for a profile that an earlier create made
C4_Witness ==
    /\ last.op = "create"
    /\ last.name = Alice
    /\ last.result = "AlreadyExists"
    /\ profile_exists(Cur, Alice)
    /\ Alice \in DOMAIN Config.profiles

\* C5: delete_profile("default") without force fails with Protected and
\* leaves the store as it was; with force it succeeds, and the next
\* ensure_profile_structure recreates "default" as an empty profile.
C5_DefaultProtectedUnlessForced ==
    /\ delete_profile(Cur, DEFAULT_PROFILE, FALSE)
           = [s |-> Cur, ok |-> FALSE, why |-> "Protected"]
    /\ \A answer \in BOOLEAN, io \in IOOutcomes(Cur) :
           LET c == delete_profile_command(Cur, DEFAULT_PROFILE, FALSE, answer, io, clock)
           IN  /\ c.result = "Protected"
               /\ c.s = ensure_profile_structure(Cur, io, clock)
    /\ profile_exists(Cur, DEFAULT_PROFILE) =>
           LET r == delete_profile(Cur, DEFAULT_PROFILE, TRUE)
               e == ensure_profile_structure(r.s, NoFailure, clock)
           IN  /\ r.ok
               /\ ~profile_exists(r.s, DEFAULT_PROFILE)
               /\ profile_exists(e, DEFAULT_PROFILE)
               /\ ProfileFiles(e, DEFAULT_PROFILE) = EmptyMap
               /\ e.legacy = r.s.legacy

\* "default" has just been force-deleted through the store: the profiles root
\* is there, the "default" directory and its config.json entry are not
C5_Witness ==
    /\ last.op = "delete_profile"
    /\ last.name = DEFAULT_PROFILE
    /\ last.authorized
    /\ last.result = "ok"
    /\ rootExists
    /\ ~profile_exists(Cur, DEFAULT_PROFILE)
    /\ DEFAULT_PROFILE \notin DOMAIN Config.profiles

\* what config.json says in store s
ConfigOf(s) == _load_config(s)

\* name is gone from store s, and from config.json where before it was named
Forgotten(before, s, name) ==
    /\ ~profile_exists(s, name)
    /\ name \notin DOMAIN ConfigOf(s).profiles
    /\ ConfigOf(before).default_profile = name
           => ConfigOf(s).default_profile = DEFAULT_PROFILE
    /\ ConfigOf(before).last_used_profile = name
           => ConfigOf(s).last_used_profile = DEFAULT_PROFILE

Destroyed(pre, post) ==
    \/ \E n \in DOMAIN pre.dirs : ~post.root \/ n \notin DOMAIN post.dirs
    \/ \E n \in (DOMAIN pre.dirs) \cap (DOMAIN post.dirs) :
           \E f \in DOMAIN pre.dirs[n] :
               \/ f \notin DOMAIN post.dirs[n]
               \/ post.dirs[n][f] # pre.dirs[n][f]
    \/ \E f \in DOMAIN pre.rootFiles :
           \/ f \notin DOMAIN post.rootFiles
           \/ post.rootFiles[f] # pre.rootFiles[f]
    \/ \E f \in DOMAIN pre.cwd :
           \/ f \notin DOMAIN post.cwd
           \/ post.cwd[f] # pre.cwd[f]
    \/ \E f \in DOMAIN pre.legacy :
           /\ f \notin DOMAIN post.legacy \/ post.legacy[f] # pre.legacy[f]
           /\ ~ /\ DEFAULT_PROFILE \in DOMAIN post.dirs
                /\ f \in DOMAIN post.dirs[DEFAULT_PROFILE]
                /\ post.dirs[DEFAULT_PROFILE][f] = pre.legacy[f]

\* C7: an invocation that deletes a profile, deletes a credential file or
\* replaces the content of an existing credential file was confirmed at a
\* prompt or given --force.  Refuted: `profile import --merge` rewrites an
\* existing file unasked, and configure moves the legacy file over the
\* profile's file before it asks.
C7_DestructionIsAuthorized ==
    [][Destroyed(Cur, Cur') => last'.authorized]_vars

\* C8: the profile-scoped credential file is the one used whenever it exists;
\* the legacy file is used only when the profile-scoped file is absent, and
\* the working-directory file only when both are absent.  Refuted by
\* configure, which takes the legacy file for "default" whenever it exists.
C8_ProfileFileTakesPrecedence ==
    \A profile \in OptionalNames, env_profile \in OptionalNames, t \in InputTriples :
        /\ \A given \in ConfigureInputs, overwrite \in BOOLEAN, io \in IOOutcomes(Cur) :
               LET r == configure_command(Cur, profile, env_profile, t, given,
                                          overwrite, io, clock)
               IN  /\ r.had[1] => r.level = "profile"
                   /\ r.level = "legacy" => ~r.had[1]
                   /\ r.level = "cwd" => ~r.had[1] /\ ~r.had[2]
        /\ \A r \in {show_identity(Cur, profile, env_profile, t),
                     delete_identity(Cur, profile, env_profile, t, TRUE)} :
               /\ r.had[1] => r.level = "profile"
               /\ r.level = "legacy" => ~r.had[1]
               /\ r.level = "cwd" => ~r.had[1] /\ ~r.had[2]

\* C9: where the profiles root does not exist and the legacy directory does,
\* one ensure_profile_structure (no I/O error) leaves every legacy file in
\* profiles/default under its name with its content and none in the legacy
\* directory, with "default" registered in config.json and as
\* default_profile; a second call changes nothing.
C9_MigrationMovesAllOnce ==
    ~rootExists /\ legacyExists =>
        LET e1 == ensure_profile_structure(Cur, NoFailure, clock)
        IN  /\ e1.root
            /\ e1.dirs = Put(EmptyMap, DEFAULT_PROFILE, legacyFiles)
            /\ e1.legacy = EmptyMap
            /\ DEFAULT_PROFILE \in DOMAIN ConfigOf(e1).profiles
            /\ ConfigOf(e1).default_profile = DEFAULT_PROFILE
            /\ IOOutcomes(e1) = {NoFailure}
            /\ ensure_profile_structure(e1, NoFailure, clock + 1) = e1
            /\ migrate_legacy_configs(e1, NoFailure, clock + 1) = [s |-> e1, ok |-> TRUE]

\* a legacy installation after two invocations: the first migrated the file
\* (the entry dates from it), the second, a list, found nothing to do
C9_Witness ==
    /\ clock = 2
    /\ last.op = "list"
    /\ legacyExists
    /\ legacyFiles = EmptyMap
    /\ DEFAULT_PROFILE \in DOMAIN profiles
    /\ \E f \in EnvFiles : /\ f \in DOMAIN profiles[DEFAULT_PROFILE]
                           /\ profiles[DEFAULT_PROFILE][f] = LegacyContent
    /\ DEFAULT_PROFILE \in DOMAIN Config.profiles
    /\ Config.profiles[DEFAULT_PROFILE] =
           [created |-> 0, description |-> <<"Migrated from legacy configuration">>]

MigrationStart ==
    [Cur EXCEPT !.root = FALSE, !.dirs = EmptyMap, !.legacy = migration.files,
                !.cfgFile = <<>>]

\* C11: from the moment migrate_legacy_configs has listed the legacy files,
\* whether it is still renaming, has failed with OSError, was killed or has
\* finished, every one of those files lies in exactly one of the legacy
\* directory and profiles/default, with the content it had; a file whose
\* rename was done lies in profiles/default; a failed call has returned False
\* with the store as the renames done so far left it.
C11_EachLegacyFileInOnePlace ==
    migration.pc # "idle" =>
        /\ \A f \in DOMAIN migration.files :
               LET inLegacy == f \in DOMAIN legacyFiles
                   inDefault == f \in DOMAIN ProfileFiles(Cur, DEFAULT_PROFILE)
               IN  /\ inLegacy # inDefault
                   /\ inLegacy => legacyFiles[f] = migration.files[f]
                   /\ inDefault => profiles[DEFAULT_PROFILE][f] = migration.files[f]
                   /\ f \notin migration.env_files => inDefault
        /\ migration.pc = "failed" =>
               /\ ~migration.ok
               /\ LET io == [fail |-> TRUE,
                             moved |-> (DOMAIN migration.files) \ migration.env_files]
                  IN  /\ io \in IOOutcomes(MigrationStart)
                      /\ migrate_legacy_configs(MigrationStart, io, migration.at)
                             = [s |-> Cur, ok |-> FALSE]
        /\ migration.pc = "done" =>
               /\ migration.ok
               /\ migrate_legacy_configs(MigrationStart, NoFailure, migration.at)
                      = [s |-> Cur, ok |-> TRUE]

\* a migration failed after renaming some files and before others, and a
\* later invocation has run: the split is still as the failure left it
C11_Witness ==
    /\ migration.pc = "failed"
    /\ last.op = "list"
    /\ \E f \in DOMAIN migration.files : f \in DOMAIN legacyFiles
    /\ \E f \in DOMAIN migration.files : f \in DOMAIN profiles[DEFAULT_PROFILE]

\* store s2 is store s1 plus the profile dst, a copy of src, and its entry
IsCopyOf(s1, s2, src, dst) ==
    /\ profile_exists(s2, dst)
    /\ s2.dirs[dst] = s1.dirs[src]
    /\ dst \in DOMAIN ConfigOf(s2).profiles
    /\ \A n \in DOMAIN s1.dirs : n \in DOMAIN s2.dirs /\ s2.dirs[n] = s1.dirs[n]
    /\ DOMAIN s2.dirs = (DOMAIN s1.dirs) \cup {dst}
    /\ \A n \in (DOMAIN ConfigOf(s1).profiles) \ {dst} :
           /\ n \in DOMAIN ConfigOf(s2).profiles
           /\ ConfigOf(s2).profiles[n] = ConfigOf(s1).profiles[n]
    /\ DOMAIN ConfigOf(s2).profiles = (DOMAIN ConfigOf(s1).profiles) \cup {dst}
    /\ ConfigOf(s2).default_profile = ConfigOf(s1).default_profile
    /\ ConfigOf(s2).last_used_profile = ConfigOf(s1).last_used_profile
    /\ s2.legacy = s1.legacy /\ s2.cwd = s1.cwd /\ s2.rootFiles = s1.rootFiles

\* C12: copying an existing profile to a name that does not exist succeeds;
\* the destination then holds the source's credential files with their
\* contents and has an entry in config.json, and the source's files and entry,
\* like everything else in the store, are as before.  The same for the copy
\* command.
C12_CopyDuplicatesAndKeepsSource ==
    rootExists =>
        \A src \in DOMAIN profiles, dst \in DirNames \ DOMAIN profiles :
            /\ LET r == copy_profile(Cur, src, dst, clock)
               IN  r.ok /\ IsCopyOf(Cur, r.s, src, dst)
            /\ profile_exists(Cur, DEFAULT_PROFILE) =>
                   LET c == copy_profile_command(Cur, src, dst, NoFailure, clock)
                   IN  c.result = "ok" /\ c.exit = 0 /\ IsCopyOf(Cur, c.s, src, dst)

\* the copy command has made a profile out of "default", which held a file
C12_Witness ==
    /\ last.op = "copy"
    /\ last.name = Alice
    /\ last.result = "ok"
    /\ profile_exists(Cur, Alice) /\ profile_exists(Cur, DEFAULT_PROFILE)
    /\ profiles[Alice] # EmptyMap
    /\ profiles[Alice] = profiles[DEFAULT_PROFILE]
    /\ Alice \in DOMAIN Config.profiles

\* C13: list_profiles returns exactly one descriptor for each name with a
\* profile directory and none for any other name, whatever entries
\* config.json has, in ascending order of name.
C13_ListIsTheDirectoryScanSorted ==
    LET listed == list_profiles(Cur)
    IN  /\ \A n \in ListNames :
               Cardinality({i \in 1..Len(listed) : listed[i].name = n})
                   = IF profile_exists(Cur, n) THEN 1 ELSE 0
        /\ \A i \in 1..Len(listed) :
               /\ listed[i].name \in ListNames
               /\ profile_exists(Cur, listed[i].name)
               /\ listed[i].config_count = Cardinality(DOMAIN profiles[listed[i].name])
        /\ \A i \in 1..Len(listed), j \in 1..Len(listed) :
               i < j => NameLess(listed[i].name, listed[j].name)

\* after `profile list`: a directory config.json has no entry for is listed,
\* an entry without directory is not, and case decides the order
C13_Witness ==
    /\ last.op = "list"
    /\ Len(list_profiles(Cur)) = 3
    /\ list_profiles(Cur)[1].name = <<"B">>
    /\ list_profiles(Cur)[2].name = <<"a", "b">>
    /\ list_profiles(Cur)[2].meta = <<>>
    /\ list_profiles(Cur)[3].name = DEFAULT_PROFILE
    /\ <<"a">> \in DOMAIN Config.profiles
    /\ ~profile_exists(Cur, <<"a">>)

\* C14: an invocation of configure, and an invocation of identity delete
\* that deleted a file for a profile directory it resolved, leave
\* last_used_profile equal to the profile they resolved; profile list, profile show, identity list and identity show
\* leave last_used_profile as it was.  Refuted: identity delete never writes
\* last_used_profile.
C14_LastUsedFollowsUse ==
    [][ /\ last'.op = "configure" => Config'.last_used_profile = last'.name
        /\ last'.op = "identity delete" /\ last'.result = "ok" /\ last'.name \in DirNames
               => Config'.last_used_profile = last'.name
        /\ last'.op \in {"list", "show", "identity list", "identity show"}
               => Config'.last_used_profile = Config.last_used_profile ]_vars

\* the ways a command ends that are handled failures
HandledFailures ==
    {"InvalidName", "AlreadyExists", "NotFound", "SourceNotFound", "DestExists",
     "Protected", "Failed", "Unreadable"}

\* C15: a command that ended in a handled failure (invalid name, profile or
\* credential file not found, already exists, protected, I/O or parse
\* failure) exited non-zero; exit status 0 means none occurred.  Refuted:
\* identity show and identity delete return normally when no credential file
\* is found.
C15_HandledFailureExitsNonZero ==
    last.result \in HandledFailures => last.exit # 0

\* C16: for every profile P and every name Q not in use, importing into Q
\* what export of P without --include-credentials produced (wallet prompt
\* answered with Enter) gives Q, for every file of P, every non-credential
\* key of that file with P's value, and no credential key.
\* Refuted: export keeps only the keys on its list of safe keys.
C16_ExportImportRoundTrip ==
    rootExists =>
        \A P \in DOMAIN profiles, Q \in DirNames \ DOMAIN profiles :
            LET e == export_profile_command(Cur, P, FALSE, NoFailure, clock)
                r == import_profile_command(e.s, TRUE, Q, FALSE,
                                            e.data.configurations, "", NoFailure,
                                            clock)
                imported == ProfileFiles(r.s, Q)
            IN  \A f \in DOMAIN profiles[P] :
                    /\ \A k \in (DOMAIN profiles[P][f]) \ credential_keys :
                           /\ f \in DOMAIN imported
                           /\ k \in DOMAIN imported[f]
                           /\ imported[f][k] = profiles[P][f][k]
                    /\ f \in DOMAIN imported =>
                           (DOMAIN imported[f]) \cap credential_keys = {}

\* the profile-name rule as the specification words it
BreaksNameRule(name) ==
    \/ Len(name) = 0
    \/ \E i \in DOMAIN name : name[i] = "/"
    \/ \E i \in DOMAIN name : name[i] = "\\"
    \/ \E i \in DOMAIN name : name[i] = "."

\* C17: a profile create, a profile copy (destination) or a profile import
\* (of a readable file) whose name is empty or contains "/", "\" or "." ends
\* with InvalidName and exit status 1, and leaves the store as
\* ensure_profile_structure alone leaves it: no directory and no GlobalConfig
\* entry is created for the name.
C17_NameRuleEnforcedAtCreation ==
    [][(/\ last'.op \in {"create", "copy", "import"}
        /\ BreaksNameRule(last'.name)
        /\ last'.result # "Unreadable")
       => /\ last'.result = "InvalidName"
          /\ last'.exit = 1
          /\ \E io \in IOOutcomes(Cur) :
                 Cur' = ensure_profile_structure(Cur, io, clock)
          /\ DOMAIN profiles' \subseteq DOMAIN profiles \cup {DEFAULT_PROFILE}
          /\ DOMAIN Config'.profiles \subseteq
                 DOMAIN Config.profiles \cup {DEFAULT_PROFILE}]_vars

\* an import under the name "." was rejected on a store that holds profiles
C17_Witness ==
    /\ last.op = "import"
    /\ last.name = Dot
    /\ last.result = "InvalidName"
    /\ last.exit = 1
    /\ Alice \in DOMAIN profiles

\* the one file name both spellings of the triple stand for
ExpectedEnvFile == <<".", "e", "n", "v", ".", "m", ".", "u", ".", "e", "_", "m">>

\* two file names that spell one (chain, market, source-chain) triple
SameTriple(f1, f2) ==
    LET p1 == split(f1, ".")
        p2 == split(f2, ".")
    IN  /\ Len(p1) = 5
        /\ Len(p2) = 5
        /\ \A i \in 3..5 :
               replace_hyphen(lower(p1[i])) = replace_hyphen(lower(p2[i]))

OneFilePerTriple(files) ==
    \A f1 \in DOMAIN files, f2 \in DOMAIN files : SameTriple(f1, f2) => f1 = f2

UpdateIn(p, c) ==
    IF race[p].cmd = "create" THEN race[p].name \in DOMAIN c.profiles
    ELSE c.default_profile = race[p].name

LoadedBy(p) == _load_config([Cur EXCEPT !.cfgFile = race[p].loaded])

\* C19: of two concurrent invocations with different updates that both ended
\* with success, when the one that wrote config.json last had read it before
\* the other's update was there, config.json holds the last writer's update
\* and not the other's: the later write discards the earlier one.
C19_LaterWriteDiscardsEarlierUpdate ==
    \A p \in Procs, q \in Procs :
        (/\ p # q
         /\ race[p].pc = "done" /\ race[p].result = "ok"
         /\ race[q].pc = "done" /\ race[q].result = "ok"
         /\ race[p].wrote > race[q].wrote
         /\ <<race[p].cmd, race[p].name>> # <<race[q].cmd, race[q].name>>
         /\ ~UpdateIn(q, LoadedBy(p)))
        => /\ UpdateIn(p, Config)
           /\ ~UpdateIn(q, Config)

\* create a and create b both reported success, each had read a whole
\* config.json, and config.json has no entry for one of them
C19_Witness ==
    /\ \A p \in Procs : race[p].pc = "done" /\ race[p].result = "ok"
                        /\ race[p].cmd = "create"
                        /\ race[p].loaded # <<Truncated>>
    /\ race[1].name # race[2].name
    /\ {Alice, Bob} \subseteq DOMAIN profiles
    /\ \E n \in {Alice, Bob} : n \notin DOMAIN Config.profiles

\* the run got through every step without failure or interrupt, and every
\* slot the wallet owns has a running container
SucceededAllRunning ==
    /\ slotCheck.why \notin {"Interrupted", "Unexpected"}
    /\ slotCheck.env_file
    /\ slotCheck.wallet_holder_address # ""
    /\ slotCheck.rpc_ok
    /\ slotCheck.calls_ok
    /\ slotCheck.slot_ids # {}
    /\ \A slot \in slotCheck.slot_ids :
           \E c \in slotCheck.containers : c.slot = slot

\* C20: when the script has ended, its status is 0 exactly when the run
\* succeeded with every owned slot running; 130 when it was interrupted; and
\* 1 in every other case (no .env, no wallet address, RPC failure, no slots
\* owned, a slot not running, unexpected exception).
\* Refuted: a wallet that owns no slots ends the run with status 0.
C20_SlotCheckExitStatus ==
    slotCheck.pc = "exited" =>
        /\ slotCheck.exit = 0 <=> SucceededAllRunning
        /\ slotCheck.why = "Interrupted" => slotCheck.exit = 130
        /\ (slotCheck.why # "Interrupted" /\ ~SucceededAllRunning)
               => slotCheck.exit = 1

\* the template fields of configure that this model has
TemplateKeys == {WALLET, POOL, BRANCH}

\* a new non-empty value for key k was given by flag or prompt
Supplied(given, k) ==
    \/ k = WALLET /\ given.wallet # ""
    \/ k = POOL /\ given.max_stream_pool_size # ""

\* what configure with these inputs makes of the file f of profile p
Rewritten(p, f, t, given) ==
    ProfileFiles(configure_command(Cur, p, NoName, t, given, TRUE, NoFailure,
                                   clock).s, p)[f]

SuppliedByImport(config, wallet) ==
    (DOMAIN config.settings) \cup
    (IF WALLET \notin DOMAIN config.settings /\ wallet # "" THEN {WALLET} ELSE {})

\* C22: for every existing profile P and every import file, after
\* profile import --merge into P every file of P is still there; a file of a
\* triple the import file does not name is unchanged; and in a file of a
\* triple it does name, every key the import data does not supply has its
\* old value.
\* Refuted: the file of a named triple is replaced by the imported settings.
C22_ImportMergeKeepsOtherKeys ==
    \A P \in (DOMAIN profiles) \cap DirNames, configs \in ImportConfigs,
       wallet \in WalletAnswers :
        LET r == import_profile_command(Cur, TRUE, P, TRUE, configs, wallet,
                                        NoFailure, clock)
            named(f) == {i \in DOMAIN configs :
                            NormalisedEnvFilename(configs[i].chain, configs[i].market,
                                                  configs[i].source_chain) = f}
        IN  rootExists =>
            \A f \in DOMAIN profiles[P] :
                /\ f \in DOMAIN ProfileFiles(r.s, P)
                /\ named(f) = {} => ProfileFiles(r.s, P)[f] = profiles[P][f]
                /\ \A i \in named(f), k \in DOMAIN profiles[P][f] :
                       k \notin SuppliedByImport(configs[i], wallet)
                           => /\ k \in DOMAIN ProfileFiles(r.s, P)[f]
                              /\ ProfileFiles(r.s, P)[f][k] = profiles[P][f][k]

\* C23: once monitor deploy has loaded the namespaced credential file, the
\* file it parsed is the one of the market the operator selected: its name is
\* made of the chain, the selected market and that market's source chain.
\* Refuted: the file name is made from the first market of the chain, so with
\* the second market selected the first market's file is the one parsed.
C23_ParsedFileIsSelectedMarkets ==
    monitor.parsed # NoName
        => monitor.parsed = MarketEnvFilename(Markets[monitor.selected])

\* the temporary clone directory was made by this run, and the run has ended
EndedAfterCloneDir == monitor.pc = "exited" /\ monitor.tmp_created

\* C24 as stated: on every exit path after the temporary clone directory was
\* created, the directory is gone when the command ends, and the working
\* directory is the original one whenever deploy_monitor_service changed it.
C24_NoTemporaryStateLeft ==
    EndedAfterCloneDir
        => /\ ~monitor.tmp
           /\ monitor.changed_dir => monitor.cwd = "start"

\* C24 corrected: the same, except that the directory stays when the rmtree of
\* the final cleanup itself raises OSError (the command then only warns).
C24_NoTemporaryStateLeftUnlessCleanupFails ==
    EndedAfterCloneDir
        => /\ monitor.cleanup_failed \/ ~monitor.tmp
           /\ monitor.changed_dir => monitor.cwd = "start"

\* a deployment that failed after the change of directory, cleaned up
C24_Witness ==
    /\ EndedAfterCloneDir
    /\ monitor.changed_dir
    /\ monitor.exit = 1
    /\ ~monitor.tmp
    /\ monitor.cwd = "start"

\* C25: a deployment refused because the screen session of the chain exists
\* leaves the existing instance directory and its .env as they were.
\* Refuted: the directory is removed, recreated and its .env regenerated
\* before the screen session is looked for.
C25_RefusedDeployKeepsRunningInstance ==
    ( /\ monitor.pc = "exited"
      /\ monitor.why = "SessionExists"
      /\ monitor.instance_at_start.exists )
        => monitor.instance = monitor.instance_at_start

\* names a store function can be handed and that the store resolves to a
\* directory of its own
StoreNames == DirNames \cup {Dot, NoName}

\* C26: at every reachable store, a store operation that ends in one of its
\* error returns leaves the store as it was: create of a name whose directory
\* exists, delete of "default" without force or of a missing profile, copy
\* from a missing source or onto an existing destination, and set-default of
\* a profile that does not exist (files, metadata and default_profile alike).
C26_ErrorReturnLeavesStoreUnchanged ==
    \A name \in StoreNames :
        /\ \A description \in {<<>>, <<"x">>} :
              profile_dir_exists(Cur, name)
                  => /\ ~create_profile(Cur, name, description, clock).ok
                     /\ create_profile(Cur, name, description, clock).s = Cur
        /\ \A force \in BOOLEAN :
              ((name = DEFAULT_PROFILE /\ ~force) \/ ~profile_dir_exists(Cur, name))
                  => /\ ~delete_profile(Cur, name, force).ok
                     /\ delete_profile(Cur, name, force).s = Cur
        /\ \A destination \in StoreNames :
              (~profile_dir_exists(Cur, name) \/ profile_dir_exists(Cur, destination))
                  => /\ ~copy_profile(Cur, name, destination, clock).ok
                     /\ copy_profile(Cur, name, destination, clock).s = Cur
        /\ ~profile_exists(Cur, name) => set_default_profile(Cur, name) = Cur

\* a second `profile create a` was refused, and the entry of the first stands
C26_Witness ==
    /\ last.op = "create"
    /\ last.name = Alice
    /\ last.result = "AlreadyExists"
    /\ profile_dir_exists(Cur, Alice)
    /\ Alice \in DOMAIN Config.profiles
    /\ Config.profiles[Alice].created < clock - 1

\* the profile directories under the profiles root
ProfileDirectories == IF rootExists THEN DOMAIN profiles ELSE {}

\* C27: from the empty store, after any sequence of CLI operations in which
\* no I/O operation fails, the profile directories are exactly the names with
\* a metadata entry in config.json.  Stated for the runs without a legacy
\* directory, where no operation of the model has a failing outcome.
\* Refuted: configure with --profile naming a profile that was never created
\* makes the directory and registers nothing.
C27_DirectoriesAreMetadataEntries ==
    ~legacyExists => ProfileDirectories = DOMAIN Config.profiles

\* C28: a configure aborted at the "already exists. Overwrite?" prompt leaves
\* the store as it was when the command started: the credential files of the
\* profiles, the credential files in envs/ and config.json with its
\* last_used_profile.
\* Refuted: last_used_profile is saved, and a file in envs/ is moved into the
\* default profile, before the prompt is reached.
C28_AbortedConfigureChangesNothing ==
    [][ (last'.op = "configure" /\ last'.result = "Aborted")
            => /\ profiles' = profiles
               /\ legacyFiles' = legacyFiles
               /\ Config' = Config ]_vars

\* C29: every name stored as default_profile, and every name configure
\* resolves as the active profile, satisfies the name rule of create
\* (non-empty, no "/", no "\", no "."), and no credential file is written
\* into the profiles root itself.
\* Refuted: profile_exists(".") is true whenever the profiles root exists, so
\* set-default, --profile and POWERLOOM_PROFILE accept ".".
C29_ActiveAndDefaultNamesFollowNameRule ==
    /\ ~BreaksNameRule(Config.default_profile)
    /\ last.op = "configure" => ~BreaksNameRule(last.name)
    /\ rootFiles = EmptyMap

\* C30: when two concurrent invocations create the same name, which did not
\* exist, and both have ended, one reported success and the other
\* AlreadyExists.
\* Refuted: both can pass profile_dir.exists() before either makes the
\* directory; mkdir(exist_ok=True) then succeeds twice, both write the
\* metadata entry and both report success.
C30_OneCreateOfTwoSucceeds ==
    \A p \in Procs :
        ( /\ race[p].cmd = "create" /\ race[3 - p].cmd = "create"
          /\ race[p].name = race[3 - p].name
          /\ race[p].pc = "done" /\ race[3 - p].pc = "done"
          /\ race[p].result = "ok" )
            => race[3 - p].result = "AlreadyExists"

====
